---- MODULE Spec2Model ----
(***************************************************************************)
(* Transport layer of netlinklib (src/netlinklib/core.py): the framer      *)
(* `_messages`, the shared driver `_nll_send`, `nll_get_dump`,             *)
(* `nll_transact`, their legacy counterparts and `nll_listen`.  The legacy *)
(* drivers of core.py are repeated verbatim in legacy_core.py.             *)
(*                                                                         *)
(* One behaviour is one operation on one socket.  The kernel's replies are *)
(* drawn datagram by datagram at each `recv`; every message gets as id its *)
(* position in the order of arrival, which also stands for its payload.    *)
(* A value of type bytes is the sequence of the ids of the payloads it     *)
(* holds, so b"" is << >>.                                                 *)
(***************************************************************************)
EXTENDS Integers, Sequences, FiniteSets, TLC

\* Total number of messages the kernel delivers in one behaviour.
MaxMsgs == 3
\* Largest number of messages bundled in one datagram.
MaxPerDgram == 2

VARIABLES
    op,               \* the operation being run
    sk,               \* "owned": sk=None, ephemeral socket; "supplied": the caller's
    pc,               \* "start": before sendto; "run": in the read loop; "done"
    buf,              \* _messages: the unread rest of the current datagram
    framerDone,       \* _messages has returned
    dump_interrupted, \* the latch of the dump drivers
    sent,             \* number of sendto calls made
    nrecv,            \* number of recv calls made
    rx,               \* every message received so far, in order of arrival
    seen,             \* messages whose header _messages (or legacy transact) unpacked
    consumed,         \* messages handed to the driver's loop body
    naccum,           \* number of calls of the accumulator factory
    parsed,           \* calls of the per-object parser: message, accumulator, result
    yielded,          \* what the caller's iteration received
    outcome,          \* how the operation ended, "none" while it runs
    errarg,           \* args[0] of the exception raised
    result,           \* bytes returned by a transact
    sock,             \* the socket used: "unopened", "open" or "closed"
    queue,            \* datagrams waiting in the receive queue of a shared socket
    fn,               \* codec: the function applied, "none" before
    input,            \* codec: its arguments
    output            \* codec: what it returned or raised

vars == <<op, sk, pc, buf, framerDone, dump_interrupted, sent, nrecv, rx, seen,
          consumed, naccum, parsed, yielded, outcome, errarg, result, sock,
          queue, fn, input, output>>

\* The state of the transport operations and the state of the codec functions.
transport == <<op, sk, pc, buf, framerDone, dump_interrupted, sent, nrecv, rx,
               seen, consumed, naccum, parsed, yielded, outcome, errarg, result,
               sock, queue>>
codec == <<fn, input, output>>

------------------------------------------------------------------------------
(* Inputs *)

Ops == {"dump", "legacy_dump", "transact", "legacy_transact", "listen"}

\* Message types: the three control types, the caller's expected reply type
\* (rtyp / expect) and any other type.
MsgTypes == {"NOOP", "ERROR", "DONE", "RTYP", "OTHER"}

\* Values of nlmsgerr.error: success, -EPERM, -ENODEV.
ErrorCodes == {0, -1, -19}

\* A message as the kernel builds it: nlmsg_type, NLM_F_DUMP_INTR in
\* nlmsg_flags, and nlmsgerr.error when the type is NLMSG_ERROR.
MsgKinds ==
    [type : MsgTypes \ {"ERROR"}, intr : BOOLEAN, error : {0}]
    \cup [type : {"ERROR"}, intr : BOOLEAN, error : ErrorCodes]

Min(a, b) == IF a < b THEN a ELSE b

\* The datagrams recv may return when n more messages may arrive.
Datagrams(n) == UNION {[1..k -> MsgKinds] : k \in 1..Min(MaxPerDgram, n)}

\* What one recv call does: return a datagram, return b"", raise OSError.
RecvResults(n) ==
    {[st |-> "empty", dg |-> <<>>], [st |-> "oserror", dg |-> <<>>]}
    \cup {[st |-> "ok", dg |-> d] : d \in Datagrams(n)}

NoRecv == [st |-> "none", dg |-> <<>>]

\* The recv results to draw from: none when the framer still holds messages.
RecvChoices == IF buf = <<>> THEN RecvResults(MaxMsgs - Len(rx)) ELSE {NoRecv}

\* What a parser call does: return the accumulator, raise StopParsing,
\* raise anything else.
ParserResults == {"ok", "stop", "raise"}

\* The legacy parsers are plain functions of the message: they return or raise.
LegacyParserResults == {"ok", "raise"}

\* Message types the listener's caller registered in accum_parser.
ListenTypes == {"RTYP"}

NoMsg == [type |-> "NONE", intr |-> FALSE, error |-> 0, id |-> 0]
NoArg == [kind |-> "none", val |-> 0, str |-> 0]

\* The datagram d with ids given in order of arrival after base messages.
MkDgram(d, base) ==
    [i \in 1..Len(d) |->
        [type |-> d[i].type, intr |-> d[i].intr, error |-> d[i].error,
         id |-> base + i]]

------------------------------------------------------------------------------
(* _messages *)

\* A framer that hands NLMSG_DONE on like any other message.
MessagesPastDone(r) ==
    LET need == buf = <<>>
        dg   == IF need /\ r.st = "ok" THEN MkDgram(r.dg, Len(rx)) ELSE <<>>
        b    == IF need THEN dg ELSE buf
        n1   == IF need THEN nrecv + 1 ELSE nrecv
    IN  IF need /\ r.st = "oserror"
        THEN [kind |-> "oserror", msg |-> NoMsg, buf |-> buf, rx |-> rx,
              nrecv |-> n1, seen |-> seen]
        ELSE IF b = <<>>
        THEN [kind |-> "end", msg |-> NoMsg, buf |-> b, rx |-> rx,
              nrecv |-> n1, seen |-> seen]
        ELSE [kind |-> "msg", msg |-> Head(b), buf |-> Tail(b), rx |-> rx \o dg,
              nrecv |-> n1, seen |-> Append(seen, Head(b))]

\* One resumption of the generator _messages, r being what recv does if the
\* framer has to call it: the next item and the framer's state after it.
Messages(r) ==
    LET need == buf = <<>>
        dg   == IF need /\ r.st = "ok" THEN MkDgram(r.dg, Len(rx)) ELSE <<>>
        b    == IF need THEN dg ELSE buf
        n1   == IF need THEN nrecv + 1 ELSE nrecv
    IN  IF need /\ r.st = "oserror"
        THEN [kind |-> "oserror", msg |-> NoMsg, buf |-> buf, rx |-> rx,
              nrecv |-> n1, seen |-> seen]
        ELSE IF b = <<>>
        THEN [kind |-> "end", msg |-> NoMsg, buf |-> b, rx |-> rx,
              nrecv |-> n1, seen |-> seen]
        ELSE IF Head(b).type = "DONE"
        THEN [kind |-> "end", msg |-> NoMsg, buf |-> b, rx |-> rx \o dg,
              nrecv |-> n1, seen |-> Append(seen, Head(b))]
        ELSE [kind |-> "msg", msg |-> Head(b), buf |-> Tail(b), rx |-> rx \o dg,
              nrecv |-> n1, seen |-> Append(seen, Head(b))]

\* The framer's part of a step.
FramerUpdate(f) ==
    /\ buf' = f.buf
    /\ rx' = f.rx
    /\ nrecv' = f.nrecv
    /\ seen' = f.seen
    /\ framerDone' = (f.kind = "end")
    /\ consumed' = IF f.kind = "msg" THEN Append(consumed, f.msg) ELSE consumed

------------------------------------------------------------------------------
(* _nll_send *)

Continue(d) ==
    [act |-> "continue", latch |-> d, payload |-> <<>>, exc |-> "none", arg |-> NoArg]
Yield(d, p) ==
    [act |-> "yield", latch |-> d, payload |-> p, exc |-> "none", arg |-> NoArg]
Raise(d, e, a) ==
    [act |-> "raise", latch |-> d, payload |-> <<>>, exc |-> e, arg |-> a]

\* ErrnoArg with the sign of the first carried value flipped.
ErrnoArgPositive(error) == [kind |-> "errno", val |-> 0 - error, str |-> 0 - error]

\* args of NllError(emh.error, f"...: {strerror(-emh.error)}"): the first
\* carried value and the errno handed to strerror for the text.
ErrnoArg(error) == [kind |-> "errno", val |-> error, str |-> 0 - error]

\* args of an NllError that carries one formatted string.
TextArg == [kind |-> "text", val |-> 0, str |-> 0]

\* args of NllError(e), e the OSError caught.
OsErrorArg == [kind |-> "oserror", val |-> 0, str |-> 0]

\* NllSendError with the acknowledgement treated as an error too.
NllSendErrorAlwaysRaises(m, d) == Raise(d, "NllError", ErrnoArg(m.error))

\* _nll_send, the branch `if msg_type == NLMSG_ERROR`.
NllSendError(m, d) ==
    IF m.error # 0
    THEN Raise(d, "NllError", ErrnoArg(m.error))
    ELSE Yield(d, <<>>)

\* NllSendReply without the check of the message type.
NllSendReplyUnchecked(m, d) == Yield(d \/ m.intr, <<m.id>>)

\* _nll_send, the rest of the loop body: the type check, the latch, the yield.
NllSendReply(m, d) ==
    IF m.type # "RTYP"
    THEN Raise(d, "NllError", TextArg)
    ELSE Yield(d \/ m.intr, <<m.id>>)

\* The body of the for loop of _nll_send for message m, d being the latch.
NllSendBody(m, d) ==
    IF m.type = "NOOP" THEN Continue(d)
    ELSE IF m.type = "ERROR" THEN NllSendError(m, d)
    ELSE NllSendReply(m, d)

\* NllSendEnd raising whether or not the latch is set.
NllSendEndAlwaysInterrupted(d) == "NllDumpInterrupted"

\* After the for loop of _nll_send: how the generator ends.
NllSendEnd(d) == IF d THEN "NllDumpInterrupted" ELSE "end"

\* Accum with one accumulator made once and shared by every message.
AccumShared(n) == 1

\* accum(): the factory makes a new accumulator at every call; n calls so far.
Accum(n) == n + 1

------------------------------------------------------------------------------
(* Initial state *)

Init ==
    /\ op \in Ops
    /\ sk \in (IF op = "listen" THEN {"supplied"} ELSE {"owned", "supplied"})
    /\ pc = (IF op = "listen" THEN "run" ELSE "start")
    /\ buf = <<>>
    /\ framerDone = FALSE
    /\ dump_interrupted = FALSE
    /\ sent = 0
    /\ nrecv = 0
    /\ rx = <<>>
    /\ seen = <<>>
    /\ consumed = <<>>
    /\ naccum = 0
    /\ parsed = <<>>
    /\ yielded = <<>>
    /\ outcome = "none"
    /\ errarg = NoArg
    /\ result = <<>>
    /\ sock = (IF sk = "owned" THEN "unopened" ELSE "open")
    /\ queue = <<>>
    /\ fn = "none"
    /\ input = <<>>
    /\ output = <<>>

Finish(o, a) ==
    /\ pc' = "done"
    /\ outcome' = o
    /\ errarg' = a

\* A socket that leaves the `with` block open.
WithSocketLeak(p) == IF sk = "owned" THEN "open" ELSE sock

\* `with socket(AF_NETLINK, SOCK_RAW, NETLINK_ROUTE) as owns:` around the whole
\* operation when sk is None: the socket is open while the block runs, p being
\* the position after the step, and closed when the block is left in any way.
\* A socket the caller supplied is used as it is.
WithSocket(p) ==
    IF sk = "owned"
    THEN IF p = "done" THEN "closed" ELSE "open"
    ELSE sock

\* The caller drops the iterator of a dump or of the listener, before the
\* first next() or while the generator is suspended at a yield: the generator
\* is closed, GeneratorExit leaves the `with` block if it was entered.
Drop ==
    /\ op \in {"dump", "legacy_dump", "listen"}
    /\ \/ pc = "start"
       \/ /\ pc = "run" /\ consumed # <<>>
          /\ \E k \in 1..Len(yielded) :
                yielded[k].src = consumed[Len(consumed)].id
    /\ Finish("dropped", NoArg)
    /\ sock' = IF pc = "start" THEN sock ELSE WithSocket("done")
    /\ UNCHANGED codec
    /\ UNCHANGED queue
    /\ UNCHANGED <<op, sk, buf, framerDone, dump_interrupted, sent, nrecv, rx,
                   seen, consumed, naccum, parsed, yielded, result>>

------------------------------------------------------------------------------
(* nll_get_dump *)

\* nll_get_dump with sk given: the generator pipeline is built and bound to a
\* local name, never iterated; the function's own generator ends at once.
DumpSupplied ==
    /\ op = "dump" /\ sk = "supplied" /\ pc = "start"
    /\ Finish("exhausted", NoArg)
    /\ sock' = WithSocket(pc')
    /\ UNCHANGED codec
    /\ UNCHANGED queue
    /\ UNCHANGED <<op, sk, buf, framerDone, dump_interrupted, sent, nrecv, rx,
                   seen, consumed, naccum, parsed, yielded, result>>

\* The head of _nll_send, run at the first next(): sendto, which may raise
\* OSError, wrapped in NllError.
NllSendStart ==
    /\ pc = "start"
    /\ \/ op = "dump" /\ sk = "owned"
       \/ op = "transact"
    /\ sent' = sent + 1
    /\ \E ok \in BOOLEAN :
          IF ok
          THEN pc' = "run" /\ UNCHANGED <<outcome, errarg>>
          ELSE Finish("NllError", OsErrorArg)
    /\ sock' = WithSocket(pc')
    /\ UNCHANGED codec
    /\ UNCHANGED queue
    /\ UNCHANGED <<op, sk, buf, framerDone, dump_interrupted, nrecv, rx, seen,
                   consumed, naccum, parsed, yielded, result>>

\* One iteration of `for msg in dump` of _parse over _nll_send over _messages.
DumpNext ==
    /\ op = "dump" /\ pc = "run"
    /\ \E r \in RecvChoices, pres \in ParserResults :
        LET f == Messages(r)
            b == NllSendBody(f.msg, dump_interrupted)
        IN  /\ FramerUpdate(f)
            /\ IF f.kind = "oserror"
               THEN /\ Finish("OSError", NoArg)
                    /\ UNCHANGED <<dump_interrupted, naccum, parsed, yielded>>
               ELSE IF f.kind = "end"
               THEN /\ IF NllSendEnd(dump_interrupted) = "end"
                       THEN Finish("exhausted", NoArg)
                       ELSE Finish(NllSendEnd(dump_interrupted), NoArg)
                    /\ UNCHANGED <<dump_interrupted, naccum, parsed, yielded>>
               ELSE IF b.act = "continue"
               THEN /\ pres = "ok"
                    /\ dump_interrupted' = b.latch
                    /\ UNCHANGED <<pc, outcome, errarg, naccum, parsed, yielded>>
               ELSE IF b.act = "raise"
               THEN /\ pres = "ok"
                    /\ dump_interrupted' = b.latch
                    /\ Finish(b.exc, b.arg)
                    /\ UNCHANGED <<naccum, parsed, yielded>>
               ELSE \* _parse: yield parser(accum(), msg), StopParsing caught
                    /\ dump_interrupted' = b.latch
                    /\ naccum' = naccum + 1
                    /\ parsed' = Append(parsed, [src |-> f.msg.id, msg |-> b.payload,
                                                 acc |-> Accum(naccum), res |-> pres])
                    /\ yielded' = IF pres = "ok"
                                  THEN Append(yielded, [src |-> f.msg.id,
                                                        acc |-> Accum(naccum)])
                                  ELSE yielded
                    /\ IF pres = "raise"
                       THEN Finish("ParserError", NoArg)
                       ELSE UNCHANGED <<pc, outcome, errarg>>
    /\ sock' = WithSocket(pc')
    /\ UNCHANGED codec
    /\ UNCHANGED queue
    /\ UNCHANGED <<op, sk, sent, result>>

------------------------------------------------------------------------------
(* nll_transact *)

\* next(_nll_send(...)): _nll_send is resumed until its first yield, whose
\* value is returned; a generator that ends makes next() raise StopIteration.
TransactNext ==
    /\ op = "transact" /\ pc = "run"
    /\ \E r \in RecvChoices :
        LET f == Messages(r)
            b == NllSendBody(f.msg, dump_interrupted)
        IN  /\ FramerUpdate(f)
            /\ IF f.kind = "oserror"
               THEN /\ Finish("OSError", NoArg)
                    /\ UNCHANGED <<dump_interrupted, result>>
               ELSE IF f.kind = "end"
               THEN /\ IF NllSendEnd(dump_interrupted) = "end"
                       THEN Finish("StopIteration", NoArg)
                       ELSE Finish(NllSendEnd(dump_interrupted), NoArg)
                    /\ UNCHANGED <<dump_interrupted, result>>
               ELSE IF b.act = "continue"
               THEN /\ dump_interrupted' = b.latch
                    /\ UNCHANGED <<pc, outcome, errarg, result>>
               ELSE IF b.act = "raise"
               THEN /\ dump_interrupted' = b.latch
                    /\ Finish(b.exc, b.arg)
                    /\ UNCHANGED result
               ELSE /\ dump_interrupted' = b.latch
                    /\ result' = b.payload
                    /\ Finish("return", NoArg)
    /\ sock' = WithSocket(pc')
    /\ UNCHANGED codec
    /\ UNCHANGED queue
    /\ UNCHANGED <<op, sk, sent, naccum, parsed, yielded>>

------------------------------------------------------------------------------
(* _legacy_nll_get_dump (core.py) and _nll_get_dump (legacy_core.py) *)

\* The body of the for loop of the legacy dump for message m, d the latch.
LegacyDumpBody(m, d) ==
    IF m.type = "NOOP" THEN Continue(d)
    ELSE IF m.type = "ERROR"
    THEN Raise(d, "NllError", TextArg)
    ELSE IF m.type # "RTYP"
    THEN Raise(d, "NllError", TextArg)
    ELSE Yield(d \/ m.intr, <<m.id>>)

\* After the for loop of the legacy dump.
LegacyDumpEnd(d) == IF d THEN "NllDumpInterrupted" ELSE "end"

\* The head of the legacy dump: the request is built and sent.
LegacyDumpStart ==
    /\ op = "legacy_dump" /\ pc = "start"
    /\ sent' = sent + 1
    /\ \E ok \in BOOLEAN :
          IF ok
          THEN pc' = "run" /\ UNCHANGED <<outcome, errarg>>
          ELSE Finish("NllError", OsErrorArg)
    /\ sock' = WithSocket(pc')
    /\ UNCHANGED codec
    /\ UNCHANGED queue
    /\ UNCHANGED <<op, sk, buf, framerDone, dump_interrupted, nrecv, rx, seen,
                   consumed, naccum, parsed, yielded, result>>

\* One iteration of the for loop of the legacy dump over _messages.
LegacyDumpNext ==
    /\ op = "legacy_dump" /\ pc = "run"
    /\ \E r \in RecvChoices, pres \in LegacyParserResults :
        LET f == Messages(r)
            b == LegacyDumpBody(f.msg, dump_interrupted)
        IN  /\ FramerUpdate(f)
            /\ IF f.kind = "oserror"
               THEN /\ Finish("OSError", NoArg)
                    /\ UNCHANGED <<dump_interrupted, parsed, yielded>>
               ELSE IF f.kind = "end"
               THEN /\ IF LegacyDumpEnd(dump_interrupted) = "end"
                       THEN Finish("exhausted", NoArg)
                       ELSE Finish(LegacyDumpEnd(dump_interrupted), NoArg)
                    /\ UNCHANGED <<dump_interrupted, parsed, yielded>>
               ELSE IF b.act = "continue"
               THEN /\ pres = "ok"
                    /\ dump_interrupted' = b.latch
                    /\ UNCHANGED <<pc, outcome, errarg, parsed, yielded>>
               ELSE IF b.act = "raise"
               THEN /\ pres = "ok"
                    /\ dump_interrupted' = b.latch
                    /\ Finish(b.exc, b.arg)
                    /\ UNCHANGED <<parsed, yielded>>
               ELSE \* yield parser(message, **kwargs)
                    /\ dump_interrupted' = b.latch
                    /\ parsed' = Append(parsed, [src |-> f.msg.id, msg |-> b.payload,
                                                 acc |-> 0, res |-> pres])
                    /\ yielded' = IF pres = "ok"
                                  THEN Append(yielded, [src |-> f.msg.id, acc |-> 0])
                                  ELSE yielded
                    /\ IF pres = "raise"
                       THEN Finish("ParserError", NoArg)
                       ELSE UNCHANGED <<pc, outcome, errarg>>
    /\ sock' = WithSocket(pc')
    /\ UNCHANGED codec
    /\ UNCHANGED queue
    /\ UNCHANGED <<op, sk, sent, naccum, result>>

------------------------------------------------------------------------------
(* _legacy_nll_transact (core.py) and _nll_transact (legacy_core.py) *)

\* What the legacy transact makes of the datagram dg that recv returned: the
\* header of its first message is unpacked, mh.remainder is all that follows
\* that header in the datagram.
LegacyTransactReply(dg) ==
    IF dg = <<>>
    THEN [exc |-> "StructError", arg |-> NoArg, ret |-> <<>>]
    ELSE IF Head(dg).type = "ERROR"
    THEN IF Head(dg).error # 0
         THEN [exc |-> "NllError", arg |-> ErrnoArg(Head(dg).error),
               ret |-> <<>>]
         ELSE [exc |-> "return", arg |-> NoArg, ret |-> <<>>]
    ELSE IF Head(dg).type # "RTYP"
    THEN [exc |-> "NllError", arg |-> TextArg, ret |-> <<>>]
    ELSE [exc |-> "return", arg |-> NoArg, ret |-> [i \in 1..Len(dg) |-> dg[i].id]]

\* The whole legacy transact: sendto, one recv, the decision on the reply.
LegacyTransact ==
    /\ op = "legacy_transact" /\ pc = "start"
    /\ sent' = sent + 1
    /\ \E ok \in BOOLEAN :
        \E r \in (IF ok THEN RecvResults(MaxMsgs) ELSE {NoRecv}) :
          IF ~ok
          THEN /\ Finish("NllError", OsErrorArg)
               /\ UNCHANGED <<nrecv, rx, seen, consumed, result>>
          ELSE IF r.st = "oserror"
          THEN /\ Finish("NllError", OsErrorArg)
               /\ nrecv' = nrecv + 1
               /\ UNCHANGED <<rx, seen, consumed, result>>
          ELSE LET dg == MkDgram(r.dg, Len(rx))
                   a  == LegacyTransactReply(dg)
               IN  /\ nrecv' = nrecv + 1
                   /\ rx' = rx \o dg
                   /\ seen' = IF dg = <<>> THEN seen ELSE Append(seen, Head(dg))
                   /\ consumed' = IF dg = <<>> THEN consumed
                                  ELSE Append(consumed, Head(dg))
                   /\ result' = a.ret
                   /\ Finish(a.exc, a.arg)
    /\ sock' = WithSocket(pc')
    /\ UNCHANGED codec
    /\ UNCHANGED queue
    /\ UNCHANGED <<op, sk, buf, framerDone, dump_interrupted, naccum, parsed, yielded>>

------------------------------------------------------------------------------
(* nll_listen *)

\* The body of the for loop of nll_listen for message m, pres being what the
\* parser registered for its type does: the table lookup, then
\* yield (msg_type, parser(accum(), message)) with no handler around it.
ListenBody(m, pres) ==
    IF m.type \notin ListenTypes
    THEN Raise(FALSE, "NllError", TextArg)
    ELSE IF pres = "stop" THEN Raise(FALSE, "StopParsing", NoArg)
    ELSE IF pres = "raise" THEN Raise(FALSE, "ParserError", NoArg)
    ELSE Yield(FALSE, <<m.id>>)

\* One iteration of the for loop of nll_listen over _messages.
ListenNext ==
    /\ op = "listen" /\ pc = "run"
    /\ \E r \in RecvChoices, pres \in ParserResults :
        LET f == Messages(r)
            b == ListenBody(f.msg, pres)
            called == f.kind = "msg" /\ f.msg.type \in ListenTypes
        IN  /\ FramerUpdate(f)
            /\ ~called => pres = "ok"
            /\ naccum' = IF called THEN naccum + 1 ELSE naccum
            /\ parsed' = IF called
                         THEN Append(parsed, [src |-> f.msg.id, msg |-> <<f.msg.id>>,
                                              acc |-> Accum(naccum), res |-> pres])
                         ELSE parsed
            /\ IF f.kind = "oserror"
               THEN Finish("OSError", NoArg) /\ UNCHANGED yielded
               ELSE IF f.kind = "end"
               THEN Finish("exhausted", NoArg) /\ UNCHANGED yielded
               ELSE IF b.act = "raise"
               THEN Finish(b.exc, b.arg) /\ UNCHANGED yielded
               ELSE /\ yielded' = Append(yielded, [src |-> f.msg.id,
                                                   acc |-> Accum(naccum)])
                    /\ UNCHANGED <<pc, outcome, errarg>>
    /\ sock' = WithSocket(pc')
    /\ UNCHANGED codec
    /\ UNCHANGED queue
    /\ UNCHANGED <<op, sk, sent, dump_interrupted, result>>

Next ==
    \/ DumpSupplied
    \/ NllSendStart
    \/ DumpNext
    \/ TransactNext
    \/ LegacyDumpStart
    \/ LegacyDumpNext
    \/ LegacyTransact
    \/ ListenNext
    \/ Drop

Spec == Init /\ [][Next]_vars

------------------------------------------------------------------------------
(* Codec: structs, attributes.  A value of type bytes is here the sequence  *)
(* of its bytes, each in 0..255; integers are packed in the byte order of a *)
(* little-endian machine.                                                   *)

\* Longest attribute payload, in bytes.
MaxPayload == 4
\* Longest attribute list.
MaxAttrs == 3

\* The last priority of the prio qdisc: priomap has TC_PRIO_MAX + 1 elements.
TC_PRIO_MAX == 15

StructError == [ok |-> FALSE, exc |-> "StructError", bytes |-> <<>>]
Bytes(b) == [ok |-> TRUE, exc |-> "none", bytes |-> b]

RECURSIVE Concat(_)
\* b"".join(q)
Concat(q) == IF q = <<>> THEN <<>> ELSE Head(q) \o Concat(Tail(q))

\* The tail of b from the 0-based index n on, b[n:].
From(b, n) == IF n >= Len(b) THEN <<>> ELSE SubSeq(b, n + 1, Len(b))
\* b[:n]: the first n elements of b, all but the last -n when n < 0.
Upto(b, n) ==
    IF n >= Len(b) THEN b
    ELSE IF n >= 0 THEN SubSeq(b, 1, n)
    ELSE IF Len(b) + n > 0 THEN SubSeq(b, 1, Len(b) + n)
    ELSE <<>>

\* Size in bytes of one item of a struct format.
Width(c) == CASE c = "B" -> 1 [] c = "H" -> 2 [] c = "i" -> 4 [] c = "I" -> 4

\* Whether pack accepts v for format character c.
InRange(c, v) ==
    CASE c = "B" -> v \in 0..255
      [] c = "H" -> v \in 0..65535
      [] c = "i" -> v \in (0 - 2147483647 - 1)..2147483647
      [] c = "I" -> v >= 0

\* pack of one integer: two's complement, least significant byte first.
PackInt(c, v) ==
    LET w == IF v >= 0 THEN v ELSE (v + 2147483647) + 1
        top == IF v >= 0 THEN 0 ELSE 128
    IN  CASE c = "B" -> <<w>>
          [] c = "H" -> <<w % 256, w \div 256>>
          [] c = "i" -> <<w % 256, (w \div 256) % 256, (w \div 65536) % 256,
                          (w \div 16777216) + top>>
          [] c = "I" -> <<w % 256, (w \div 256) % 256, (w \div 65536) % 256,
                          w \div 16777216>>

\* unpack of one integer.
UnpackInt(c, b) ==
    CASE c = "B" -> b[1]
      [] c = "H" -> b[1] + 256 * b[2]
      [] c = "i" -> b[1] + 256 * b[2] + 65536 * b[3]
                    + 16777216 * (IF b[4] >= 128 THEN b[4] - 256 ELSE b[4])
      [] c = "I" -> b[1] + 256 * b[2] + 65536 * b[3] + 16777216 * b[4]

\* The struct classes: their slots without "remainder", in order, with the
\* format character and the array dimension (0 for a scalar) of each.
StructDefs ==
    [rtattr |-> <<[name |-> "rta_len", fmt |-> "H", dim |-> 0],
                  [name |-> "rta_type", fmt |-> "H", dim |-> 0]>>,
     nlmsghdr |-> <<[name |-> "nlmsg_len", fmt |-> "I", dim |-> 0],
                    [name |-> "nlmsg_type", fmt |-> "H", dim |-> 0],
                    [name |-> "nlmsg_flags", fmt |-> "H", dim |-> 0],
                    [name |-> "nlmsg_seq", fmt |-> "I", dim |-> 0],
                    [name |-> "nlmsg_pid", fmt |-> "I", dim |-> 0]>>,
     nlmsgerr |-> <<[name |-> "error", fmt |-> "i", dim |-> 0]>>,
     tc_prio_qopt |-> <<[name |-> "bands", fmt |-> "i", dim |-> 0],
                        [name |-> "priomap", fmt |-> "B",
                         dim |-> TC_PRIO_MAX + 1]>>,
     rtnexthop |-> <<[name |-> "rtnh_len", fmt |-> "H", dim |-> 0],
                     [name |-> "rtnh_flags", fmt |-> "B", dim |-> 0],
                     [name |-> "rtnh_hops", fmt |-> "B", dim |-> 0],
                     [name |-> "rtnh_ifindex", fmt |-> "i", dim |-> 0]>>]

Slots(S) == StructDefs[S]

\* PACKFMT as the sequence of its items, an array being dim items.
PackFmt(S) ==
    Concat([i \in 1..Len(Slots(S)) |->
              IF Slots(S)[i].dim = 0 THEN <<Slots(S)[i].fmt>>
              ELSE [j \in 1..Slots(S)[i].dim |-> Slots(S)[i].fmt]])

RECURSIVE SumWidth(_)
SumWidth(items) ==
    IF items = <<>> THEN 0 ELSE Width(Head(items)) + SumWidth(Tail(items))

\* SIZE = calcsize(PACKFMT).
Size(S) == SumWidth(PackFmt(S))

\* struct.pack(fmt, *args): one argument for each item of the format.
Pack(items, args) ==
    IF Len(args) # Len(items) THEN StructError
    ELSE IF \E i \in 1..Len(args) : ~InRange(items[i], args[i]) THEN StructError
    ELSE Bytes(Concat([i \in 1..Len(args) |-> PackInt(items[i], args[i])]))

\* Offset of item i in the packed struct.
Offset(items, i) == SumWidth(SubSeq(items, 1, i - 1))

\* struct.unpack(fmt, inp): the values of the items, inp being SIZE long.
Unpack(items, inp) ==
    IF Len(inp) # SumWidth(items)
    THEN [ok |-> FALSE, exc |-> "StructError", vals |-> <<>>]
    ELSE [ok |-> TRUE, exc |-> "none",
          vals |-> [i \in 1..Len(items) |->
                      UnpackInt(items[i],
                                SubSeq(inp, Offset(items, i) + 1,
                                       Offset(items, i) + Width(items[i])))]]

\* NllMsg.__init__(**kwargs): every slot from kwargs, a missing integer
\* slot is zero, a missing slot of another type raises TypeError.
StructNew(S, kw) ==
    IF \E i \in 1..Len(Slots(S)) :
          Slots(S)[i].name \notin DOMAIN kw /\ Slots(S)[i].dim # 0
    THEN [ok |-> FALSE, exc |-> "TypeError", fields |-> <<>>]
    ELSE [ok |-> TRUE, exc |-> "none",
          fields |-> [n \in {Slots(S)[i].name : i \in 1..Len(Slots(S))} |->
                        IF n \in DOMAIN kw THEN kw[n] ELSE 0]]

\* NllMsg.bytes: pack(PACKFMT, *(getattr(self, x) for x in __slots__)), one
\* argument for each slot.
StructBytes(S, fields) ==
    Pack(PackFmt(S), [i \in 1..Len(Slots(S)) |-> fields[Slots(S)[i].name]])

\* Index in the item list of the first item of slot i.
FirstItem(S, i) ==
    1 + Len(Concat([k \in 1..(i - 1) |->
                      [j \in 1..(IF Slots(S)[k].dim = 0 THEN 1
                                  ELSE Slots(S)[k].dim) |-> 0]]))

\* from_bytes: (self.a, *self.b, ...) = unpack(PACKFMT, inp).
FromBytes(S, inp) ==
    LET u == Unpack(PackFmt(S), inp)
    IN  IF ~u.ok THEN [ok |-> FALSE, exc |-> u.exc, fields |-> <<>>]
        ELSE [ok |-> TRUE, exc |-> "none",
              fields |->
                [n \in {Slots(S)[i].name : i \in 1..Len(Slots(S))} |->
                   LET i == CHOOSE k \in 1..Len(Slots(S)) : Slots(S)[k].name = n
                   IN  IF Slots(S)[i].dim = 0 THEN u.vals[FirstItem(S, i)]
                       ELSE SubSeq(u.vals, FirstItem(S, i),
                                   FirstItem(S, i) + Slots(S)[i].dim - 1)]]

\* NllMsg.__init__(data): the struct is read from data[:SIZE], the rest is
\* the remainder.
StructParse(S, data) ==
    LET f == FromBytes(S, Upto(data, Size(S)))
    IN  [ok |-> f.ok, exc |-> f.exc, fields |-> f.fields,
         remainder |-> From(data, Size(S))]

\* x & ~(4 - 1) for x >= 0.
AndNot3(x) == x - (x % 4)

\* bytes.ljust(w, b"\0")
Ljust(b, w) == IF Len(b) >= w THEN b ELSE b \o [i \in 1..(w - Len(b)) |-> 0]

\* An encoder that leaves the padding out.
PackAttrUnpadded(tag, val) ==
    LET size == 2 + 2 + Len(val)
        hdr  == StructBytes("rtattr",
                    StructNew("rtattr", [rta_len |-> size, rta_type |-> tag]).fields)
    IN  IF ~hdr.ok THEN hdr ELSE Bytes(hdr.bytes \o val)

\* pack_attr(tag, val)
pack_attr(tag, val) ==
    LET size == 2 + 2 + Len(val)
        increment == AndNot3(size + 4 - 1)
        hdr  == StructBytes("rtattr",
                    StructNew("rtattr", [rta_len |-> size, rta_type |-> tag]).fields)
    IN  IF ~hdr.ok THEN hdr ELSE Bytes(Ljust(hdr.bytes \o val, increment))

\* NlaAttr.to_bytes for an attribute of this tag whose _bytes() is val.
NlaAttr_to_bytes(tag, val) ==
    LET size == 2 + 2 + Len(val)
        increment == AndNot3(size + 4 - 1)
        hdr  == StructBytes("rtattr",
                    StructNew("rtattr", [rta_len |-> size, rta_type |-> tag]).fields)
    IN  IF ~hdr.ok THEN hdr ELSE Bytes(Ljust(hdr.bytes \o val, increment))

\* Attribute tags and payloads to encode.
Tags == {1, 258}
ByteSamples == {0, 1, 255}
Payloads == UNION {[1..n -> ByteSamples] : n \in 0..MaxPayload}

\* The codec functions start from here; no transport operation runs.
CodecInit ==
    /\ op = "none" /\ sk = "supplied" /\ pc = "done"
    /\ buf = <<>> /\ framerDone = FALSE /\ dump_interrupted = FALSE
    /\ sent = 0 /\ nrecv = 0 /\ rx = <<>> /\ seen = <<>> /\ consumed = <<>>
    /\ naccum = 0 /\ parsed = <<>> /\ yielded = <<>>
    /\ outcome = "none" /\ errarg = NoArg /\ result = <<>> /\ sock = "open"
    /\ queue = <<>>
    /\ fn = "none" /\ input = <<>> /\ output = <<>>

\* One call of a codec function: its name, arguments and result.
Call(f, in, out) ==
    /\ fn = "none"
    /\ fn' = f
    /\ input' = in
    /\ output' = out
    /\ UNCHANGED transport

PackAttrCall ==
    \E tag \in Tags, val \in Payloads :
        Call("pack_attr", [tag |-> tag, val |-> val], pack_attr(tag, val))

NlaAttrToBytesCall ==
    \E tag \in Tags, val \in Payloads :
        Call("NlaAttr.to_bytes", [tag |-> tag, val |-> val],
             NlaAttr_to_bytes(tag, val))

\* Attributes to put in a list: a tag and a payload of nonzero bytes.
Fill(n) == [i \in 1..n |-> 255 - i]
Attrs == [tag : Tags, val : {Fill(n) : n \in 0..MaxPayload}]
AttrLists(k) == UNION {[1..j -> Attrs] : j \in 0..k}

\* b"".join(pack_attr(k, v) for k, v in attrs)
PackAttrs(attrs) ==
    Concat([i \in 1..Len(attrs) |-> pack_attr(attrs[i].tag, attrs[i].val).bytes])

\* Request types, request bodies, the caller's extra flags and process ids.
ReqTypes == {"RTM_GETLINK", "RTM_NEWLINK"}
Bodies == {[i \in 1..n |-> 0] : n \in 0..MaxPayload}
UserFlags == SUBSET {"NLM_F_CREATE", "NLM_F_ECHO"}
Pids == {1, 4242}

\* A request as handed to sendto: the fields given to nlmsghdr(...) and the
\* bytes that follow the header.  A flags word is the set of its flags,
\* `|` their union.
Request(len, typ, flags, seq, pid, body) ==
    [hdr |-> [nlmsg_len |-> len, nlmsg_type |-> typ, nlmsg_flags |-> flags,
              nlmsg_seq |-> seq, nlmsg_pid |-> pid],
     body |-> body]

\* nlmsg(typ, flags, seq, payload), pid being what getpid() returns.
nlmsg(typ, flags, seq, payload, pid) ==
    Request(Size("nlmsghdr") + Len(payload), typ, flags, seq, pid, payload)

\* The request of nll_get_dump.
DumpRequest(typ, rtgenmsg, pid) ==
    nlmsg(typ, {"NLM_F_REQUEST", "NLM_F_DUMP"}, 1, rtgenmsg, pid)

\* The request of nll_transact.
TransactRequest(typ, rtgenmsg, flags, pid) ==
    nlmsg(typ, {"NLM_F_REQUEST", "NLM_F_ACK"} \cup flags, 1, rtgenmsg, pid)

\* The request of _legacy_nll_get_dump.
LegacyDumpRequest(typ, rtgenmsg, attrs, pid) ==
    LET seq == 1
        flags == {"NLM_F_REQUEST", "NLM_F_DUMP"}
        battrs == PackAttrs(attrs)
        size == Size("nlmsghdr") + Len(rtgenmsg) + Len(battrs)
    IN  Request(size, typ, flags, seq, pid, rtgenmsg \o battrs)

\* The request of _legacy_nll_transact.
LegacyTransactRequest(typ, rtgenmsg, attrs, nlm_flags, pid) ==
    LET seq == 0
        flags == {"NLM_F_REQUEST", "NLM_F_ACK"} \cup nlm_flags
        battrs == PackAttrs(attrs)
        size == Size("nlmsghdr") + Len(rtgenmsg) + Len(battrs)
    IN  Request(size, typ, flags, seq, pid, rtgenmsg \o battrs)

DumpRequestCall ==
    \E typ \in ReqTypes, b \in Bodies, pid \in Pids :
        Call("nll_get_dump.request",
             [typ |-> typ, body |-> b, flags |-> {}, pid |-> pid],
             DumpRequest(typ, b, pid))

TransactRequestCall ==
    \E typ \in ReqTypes, b \in Bodies, f \in UserFlags, pid \in Pids :
        Call("nll_transact.request",
             [typ |-> typ, body |-> b, flags |-> f, pid |-> pid],
             TransactRequest(typ, b, f, pid))

LegacyDumpRequestCall ==
    \E typ \in ReqTypes, b \in Bodies, a \in AttrLists(1), pid \in Pids :
        Call("legacy_nll_get_dump.request",
             [typ |-> typ, body |-> b \o PackAttrs(a), flags |-> {}, pid |-> pid],
             LegacyDumpRequest(typ, b, a, pid))

LegacyTransactRequestCall ==
    \E typ \in ReqTypes, b \in Bodies, a \in AttrLists(1), f \in UserFlags,
       pid \in Pids :
        Call("legacy_nll_transact.request",
             [typ |-> typ, body |-> b \o PackAttrs(a), flags |-> f, pid |-> pid],
             LegacyTransactRequest(typ, b, a, f, pid))

RECURSIVE IterateUnaligned(_)
\* A walk that advances by rta_len itself.
IterateUnaligned(data) ==
    IF data = <<>> THEN [exc |-> "none", items |-> <<>>]
    ELSE LET rta == StructParse("rtattr", data)
         IN  IF ~rta.ok THEN [exc |-> "NllError", items |-> <<>>]
             ELSE LET increment == rta.fields.rta_len
                      item == [tag |-> rta.fields.rta_type,
                               val |-> Upto(rta.remainder,
                                            rta.fields.rta_len - Size("rtattr")),
                               rta_len |-> rta.fields.rta_len,
                               inc |-> increment]
                  IN  IF increment = 0
                      THEN [exc |-> "hang", items |-> <<>>]
                      ELSE LET rest == IterateUnaligned(From(data, increment))
                           IN  [exc |-> rest.exc,
                                items |-> <<item>> \o rest.items]

RECURSIVE iterate_rtalist(_)
\* iterate_rtalist(data): the (rta_type, payload) pairs yielded, with the
\* rta_len read and the advance made at each, and how the walk ended: "none"
\* when the data ran out, "NllError" when a header could not be unpacked,
\* "hang" when the advance is zero and the loop never ends.
iterate_rtalist(data) ==
    IF data = <<>> THEN [exc |-> "none", items |-> <<>>]
    ELSE LET rta == StructParse("rtattr", data)
         IN  IF ~rta.ok THEN [exc |-> "NllError", items |-> <<>>]
             ELSE LET increment == AndNot3(rta.fields.rta_len + 4 - 1)
                      item == [tag |-> rta.fields.rta_type,
                               val |-> Upto(rta.remainder,
                                            rta.fields.rta_len - Size("rtattr")),
                               rta_len |-> rta.fields.rta_len,
                               inc |-> increment]
                  IN  IF increment = 0
                      THEN [exc |-> "hang", items |-> <<>>]
                      ELSE LET rest == iterate_rtalist(From(data, increment))
                           IN  [exc |-> rest.exc,
                                items |-> <<item>> \o rest.items]

IterateRtalistCall ==
    \E attrs \in AttrLists(MaxAttrs) :
        Call("iterate_rtalist", [attrs |-> attrs, data |-> PackAttrs(attrs)],
             iterate_rtalist(PackAttrs(attrs)))

\* Field values to build structs from; a field left out is not passed.
StructInputs ==
    {[S |-> "nlmsgerr", kw |-> [error |-> e]] :
        e \in {0, 0 - 1, 0 - 19, 2147483647, 0 - 2147483647 - 1}}
    \cup {[S |-> "rtattr", kw |-> [rta_len |-> l, rta_type |-> t]] :
            l \in {0, 4, 65535}, t \in {0, 1, 258}}
    \cup {[S |-> "rtattr", kw |-> [rta_type |-> t]] : t \in {1, 258}}
    \cup {[S |-> "nlmsghdr",
           kw |-> [nlmsg_len |-> l, nlmsg_type |-> t, nlmsg_flags |-> f,
                   nlmsg_seq |-> s, nlmsg_pid |-> p]] :
            l \in {16, 20}, t \in {18, 16}, f \in {1, 769}, s \in {0, 1},
            p \in Pids}
    \cup {[S |-> "tc_prio_qopt", kw |-> [bands |-> b, priomap |-> m]] :
            b \in {0, 3, 0 - 1},
            m \in {[i \in 1..(TC_PRIO_MAX + 1) |-> 0],
                   [i \in 1..(TC_PRIO_MAX + 1) |-> i % 3],
                   [i \in 1..(TC_PRIO_MAX + 1) |-> 255 - i]}}

\* S(**kw).bytes parsed again by S(data): the bytes and the fields read back.
StructRoundTrip(S, kw) ==
    LET new == StructNew(S, kw)
        b   == StructBytes(S, new.fields)
        p   == StructParse(S, b.bytes)
    IN  IF ~new.ok THEN [ok |-> FALSE, exc |-> new.exc, bytes |-> <<>>,
                         fields |-> <<>>]
        ELSE IF ~b.ok THEN [ok |-> FALSE, exc |-> b.exc, bytes |-> <<>>,
                            fields |-> <<>>]
        ELSE [ok |-> p.ok, exc |-> p.exc, bytes |-> b.bytes, fields |-> p.fields]

StructRoundTripCall ==
    \E i \in StructInputs :
        Call("struct", i, StructRoundTrip(i.S, i.kw))

------------------------------------------------------------------------------
(* Attribute parsers.  An attribute list is here the sequence of (tag,     *)
(* payload) records that the walk of parse_rtalist reads from it, tags by  *)
(* name; the payload of a nested attribute is again such a sequence.  An   *)
(* accumulator maps keys to the converter applied and the payload it got.  *)

Ok(a) == [exc |-> "none", acc |-> a]
Exc(e, a) == [exc |-> e, acc |-> a]

\* to_str, to_int, to_int_be, to_ipaddr: accum[key] = convert(data).
LeafOps == {"to_str", "to_int", "to_int_be", "to_ipaddr"}
Leaf(o, key) == [op |-> o, arg |-> key]
SetKey(accum, key, conv, raw) == (key :> [conv |-> conv, raw |-> raw]) @@ accum

\* accum.get("kind", default)
KindOf(accum, default) ==
    IF "kind" \in DOMAIN accum THEN accum["kind"].raw ELSE default

RECURSIVE parse_rtalist(_, _, _)

\* A dispatcher that never parses the data.
ParseByKindNever(accum, data, descs) == Ok(accum)

\* parse_rtalist_by_kind(accum, data, descs)
parse_rtalist_by_kind(accum, data, descs) ==
    LET kind == KindOf(accum, "None")
    IN  IF kind \notin DOMAIN descs THEN Ok(accum)
        ELSE parse_rtalist(accum, data, descs[kind])

\* parse_prio_qopt(accum, data), data being bytes.
parse_prio_qopt(accum, data) ==
    LET q == StructParse("tc_prio_qopt", data)
    IN  IF ~q.ok THEN Exc(q.exc, accum)
        ELSE Ok(SetKey(SetKey(accum, "bands", "tc_prio_qopt", q.fields.bands),
                       "priomap", "tc_prio_qopt", q.fields.priomap))

\* parse_options_for_kind(accum, data, seld)
parse_options_for_kind(accum, data, seld) ==
    LET kind == KindOf(accum, "<kind attribute not present>")
    IN  IF kind \notin DOMAIN seld THEN Exc("NotImplementedError", accum)
        ELSE IF seld[kind].callable THEN parse_prio_qopt(accum, data)
        ELSE parse_rtalist(accum, data, seld[kind].desc)

\* op(accum, payload, *args) for the entry d = (op, *args) of a selector.
ApplyOp(d, accum, val) ==
    CASE d.op \in LeafOps -> Ok(SetKey(accum, d.arg, d.op, val))
      [] d.op = "parse_rtalist" -> parse_rtalist(accum, val, d.arg)
      [] d.op = "parse_rtalist_by_kind" -> parse_rtalist_by_kind(accum, val, d.arg)
      [] d.op = "parse_options_for_kind" -> parse_options_for_kind(accum, val, d.arg)

\* parse_rtalist(accum, data, sel): the attributes in the order of the wire,
\* each handed to the entry of the selector for its tag, if there is one.
parse_rtalist(accum, data, sel) ==
    IF data = <<>> THEN Ok(accum)
    ELSE LET rta == Head(data)
             r   == IF rta.tag \in DOMAIN sel
                    THEN ApplyOp(sel[rta.tag], accum, rta.val)
                    ELSE Ok(accum)
         IN  IF r.exc # "none" THEN r
             ELSE parse_rtalist(r.acc, Tail(data), sel)

(* parser_link.py *)

_erspan_attrs ==
    ("IFLA_GRE_ERSPAN_VER" :> Leaf("to_int", "erspan_ver"))
    @@ ("IFLA_GRE_IKEY" :> Leaf("to_int_be", "gre_ikey"))
    @@ ("IFLA_GRE_OKEY" :> Leaf("to_int_be", "gre_okey"))
    @@ ("IFLA_GRE_LOCAL" :> Leaf("to_ipaddr", "gre_local"))
    @@ ("IFLA_GRE_REMOTE" :> Leaf("to_ipaddr", "gre_remote"))
    @@ ("IFLA_GRE_LINK" :> Leaf("to_int", "gre_link"))

\* The per-kind selectors of IFLA_INFO_DATA.
_linkinfo_data_descs ==
    ("vrf" :> ("IFLA_VRF_TABLE" :> Leaf("to_int", "krt")))
    @@ ("erspan" :> _erspan_attrs)
    @@ ("ip6erspan" :> _erspan_attrs)

_linkinfo_sel ==
    ("IFLA_INFO_KIND" :> Leaf("to_str", "kind"))
    @@ ("IFLA_INFO_DATA" :> [op |-> "parse_rtalist_by_kind",
                            arg |-> _linkinfo_data_descs])

_newlink_sel ==
    ("IFLA_IFNAME" :> Leaf("to_str", "name"))
    @@ ("IFLA_LINK" :> Leaf("to_int", "peer"))
    @@ ("IFLA_MASTER" :> Leaf("to_int", "master"))
    @@ ("IFLA_LINKINFO" :> [op |-> "parse_rtalist", arg |-> _linkinfo_sel])

\* The accumulator _newlink_parser starts from: the ifinfomsg header fields.
LinkHeader(ifi) ==
    SetKey(SetKey(<<>>, "ifindex", "ifi_index", ifi.ifi_index),
           "is_up", "bool", ifi.ifi_flags % 2)

\* _newlink_parser(message), the message being the ifinfomsg header and the
\* attributes that follow it.
newlink_parser(message) ==
    parse_rtalist(LinkHeader(message.ifi), message.attrs, _newlink_sel)

\* Link kinds on the wire: three the library knows, one it does not.
LinkKinds == {"vrf", "erspan", "ip6erspan", "bridge"}
\* The attributes inside IFLA_INFO_DATA.
DataAttrs ==
    [tag : {"IFLA_VRF_TABLE", "IFLA_GRE_IKEY", "IFLA_GRE_LINK", "IFLA_BR_UNSPEC"},
     val : {7}]
DataLists == UNION {[1..n -> DataAttrs] : n \in 0..MaxAttrs}
Ifinfomsgs == [ifi_index : {2}, ifi_flags : {0, 1}]

\* A NEWLINK message whose IFLA_LINKINFO holds KIND and DATA in this order.
LinkMessage(ifi, kind, data, kind_first) ==
    LET k == [tag |-> "IFLA_INFO_KIND", val |-> kind]
        d == [tag |-> "IFLA_INFO_DATA", val |-> data]
    IN  [ifi |-> ifi,
         attrs |-> <<[tag |-> "IFLA_IFNAME", val |-> "dev0"],
                     [tag |-> "IFLA_LINKINFO",
                      val |-> IF kind_first THEN <<k, d>> ELSE <<d, k>>]>>]

NewlinkParserCall ==
    \E ifi \in Ifinfomsgs, kind \in LinkKinds, data \in DataLists,
       kind_first \in BOOLEAN :
        Call("newlink_parser",
             [ifi |-> ifi, kind |-> kind, data |-> data, kind_first |-> kind_first],
             newlink_parser(LinkMessage(ifi, kind, data, kind_first)))

(* parser_tc.py *)

\* Entries of the per-kind tables: an attribute selector or a function.
Desc(sel) == [callable |-> FALSE, desc |-> sel]
Callable == [callable |-> TRUE, desc |-> <<>>]

\* The per-kind tables of TCA_OPTIONS for qdiscs, classes and filters, for
\* the kinds "noqueue" and "pfifo_fast", "htb", and "flow".
_opt_qisc_sel == ("noqueue" :> Desc(<<>>)) @@ ("pfifo_fast" :> Callable)

_opt_class_sel ==
    "htb" :> Desc(("TCA_HTB_RATE64" :> Leaf("to_int", "rate64"))
                  @@ ("TCA_HTB_CEIL64" :> Leaf("to_int", "ceil64")))

_opt_filter_sel ==
    "flow" :> Desc(("TCA_FLOW_KEYS" :> Leaf("to_int", "keymask"))
                   @@ ("TCA_FLOW_MODE" :> Leaf("to_int", "flow_mode"))
                   @@ ("TCA_FLOW_BASECLASS" :> Leaf("to_int", "baseclass")))

TcSelectors ==
    [newqdisc_parser |-> _opt_qisc_sel,
     newtclass_parser |-> _opt_class_sel,
     newtfilter_parser |-> _opt_filter_sel]

\* The accumulator _new_tc_parser starts from: the tcmsg header fields.
TcHeader(tcm) ==
    [k \in {"ifindex", "family", "handle", "parent", "info"} |->
        [conv |-> "tcmsg", raw |-> tcm[k]]]

\* _new_tc_parser(selector, message), the message being the tcmsg header
\* and the attributes that follow it.
_new_tc_parser(selector, message) ==
    parse_rtalist(TcHeader(message.tcm), message.attrs,
                  ("TCA_KIND" :> Leaf("to_str", "kind"))
                  @@ ("TCA_OPTIONS" :> [op |-> "parse_options_for_kind",
                                       arg |-> selector])
                  @@ ("TCA_CHAIN" :> Leaf("to_int", "chain")))

\* Kinds on the wire for each parser: those of its table and one more.
TcKinds(p) == DOMAIN TcSelectors[p] \cup {"fq_codel"}
Tcmsgs ==
    [ifindex : {2}, family : {0}, handle : {0, 65536}, parent : {0}, info : {0}]

\* The payload of TCA_OPTIONS the kernel sends for a kind.
TcOptions(kind) ==
    CASE kind = "pfifo_fast" ->
            PackInt("i", 3) \o [i \in 1..(TC_PRIO_MAX + 1) |-> i % 3]
      [] kind = "noqueue" -> <<>>
      [] kind = "htb" -> <<[tag |-> "TCA_HTB_RATE64", val |-> 7],
                           [tag |-> "TCA_HTB_CEIL64", val |-> 9]>>
      [] kind = "flow" -> <<[tag |-> "TCA_FLOW_KEYS", val |-> 7]>>
      [] OTHER -> <<[tag |-> "TCA_FQ_CODEL_TARGET", val |-> 7]>>

\* A tc message: TCA_KIND and, if sent, TCA_OPTIONS in this order, then
\* TCA_CHAIN if sent.
TcMessage(tcm, kind, has_options, kind_first, has_chain) ==
    LET k == <<[tag |-> "TCA_KIND", val |-> kind]>>
        o == IF has_options
             THEN <<[tag |-> "TCA_OPTIONS", val |-> TcOptions(kind)]>>
             ELSE <<>>
        c == IF has_chain THEN <<[tag |-> "TCA_CHAIN", val |-> 1]>> ELSE <<>>
    IN  [tcm |-> tcm,
         attrs |-> (IF kind_first THEN k \o o ELSE o \o k) \o c]

NewTcParserCall ==
    \E p \in DOMAIN TcSelectors, tcm \in Tcmsgs, has_options \in BOOLEAN,
       kind_first \in BOOLEAN, has_chain \in BOOLEAN :
      \E kind \in TcKinds(p) :
        Call("_new_tc_parser",
             [parser |-> p, tcm |-> tcm, kind |-> kind,
              has_options |-> has_options, kind_first |-> kind_first,
              has_chain |-> has_chain],
             _new_tc_parser(TcSelectors[p],
                            TcMessage(tcm, kind, has_options, kind_first,
                                      has_chain)))

(* api_qdisc.py, api_tclass.py, api_tc.py: the state-changing wrappers *)

\* tcmsg(tcm_family=AF_UNSPEC, tcm_ifindex=, tcm_handle=, tcm_parent=).bytes
TcmsgBytes(ifindex, handle, parent) ==
    <<0, 0, 0, 0>> \o PackInt("i", ifindex) \o PackInt("I", handle)
    \o PackInt("I", parent) \o <<0, 0, 0, 0>>

\* The wrappers: the module, the name, and the msg_type and nlm_flags that
\* partial() binds.
TcWrappers ==
    {<<"api_qdisc", "nll_qdisc_add", "RTM_NEWQDISC", {"NLM_F_CREATE", "NLM_F_EXCL"}>>,
     <<"api_qdisc", "nll_qdisc_change", "RTM_NEWQDISC", {}>>,
     <<"api_qdisc", "nll_qdisc_replace", "RTM_NEWQDISC", {"NLM_F_CREATE"}>>,
     <<"api_qdisc", "nll_qdisc_del", "RTM_DELQDISC", {}>>,
     <<"api_tclass", "nll_tclass_add", "RTM_NEWTCLASS", {"NLM_F_EXCL", "NLM_F_CREATE"}>>,
     <<"api_tclass", "nll_tclass_change", "RTM_NEWTCLASS", {}>>,
     <<"api_tclass", "nll_tclass_replace", "RTM_NEWTCLASS", {"NLM_F_CREATE"}>>,
     <<"api_tclass", "nll_tclass_del", "RTM_DELTCLASS", {}>>,
     <<"api_tc", "nll_qdisc_add", "RTM_NEWQDISC", {"NLM_F_CREATE", "NLM_F_EXCL"}>>,
     <<"api_tc", "nll_qdisc_change", "RTM_NEWQDISC", {}>>,
     <<"api_tc", "nll_qdisc_replace", "RTM_NEWQDISC", {"NLM_F_CREATE", "NLM_F_REPLACE"}>>,
     <<"api_tc", "nll_qdisc_link", "RTM_NEWQDISC", {"NLM_F_REPLACE"}>>,
     <<"api_tc", "nll_qdisc_del", "RTM_DELQDISC", {}>>,
     <<"api_tc", "nll_class_add", "RTM_NEWTCLASS", {"NLM_F_CREATE", "NLM_F_EXCL"}>>,
     <<"api_tc", "nll_class_change", "RTM_NEWTCLASS", {}>>,
     <<"api_tc", "nll_class_replace", "RTM_NEWTCLASS", {"NLM_F_CREATE"}>>,
     <<"api_tc", "nll_class_del", "RTM_DELTCLASS", {}>>,
     <<"api_tc", "nll_filter_add", "RTM_NEWTFILTER", {"NLM_F_CREATE", "NLM_F_EXCL"}>>,
     <<"api_tc", "nll_filter_change", "RTM_NEWTFILTER", {}>>,
     <<"api_tc", "nll_filter_replace", "RTM_NEWTFILTER", {"NLM_F_CREATE"}>>,
     <<"api_tc", "nll_filter_del", "RTM_DELTFILTER", {}>>}

\* The (TCA_KIND, kind.encode("ascii")) attribute, TCA_KIND = 1.
KindAttr(kind) == <<[tag |-> 1, val |-> kind]>>

\* The request of _nll_qdisc(msg_type, nlm_flags, ifindex, kind, ...) and the
\* type of answer it expects.
_nll_qdisc(msg_type, nlm_flags, ifindex, kind, pid) ==
    [req |-> LegacyTransactRequest("RTM_GETQDISC", TcmsgBytes(ifindex, 0, 0),
                                   KindAttr(kind), nlm_flags, pid),
     expect |-> IF msg_type = "RTM_GETQDISC" THEN "RTM_NEWQDISC" ELSE msg_type]

\* The request of _nll_tclass(msg_type, nlm_flags, ifindex, kind, ...).
_nll_tclass(msg_type, nlm_flags, ifindex, kind, pid) ==
    [req |-> LegacyTransactRequest("RTM_GETTCLASS", TcmsgBytes(ifindex, 0, 0),
                                   KindAttr(kind), nlm_flags, pid),
     expect |-> IF msg_type = "RTM_GETTCLASS" THEN "RTM_NEWTCLASS"
                ELSE msg_type]

\* The request of _nll_tc_op(msg_type, nlm_flags, ifindex, kind, ...) for a
\* kind without extra attributes.
_nll_tc_op(msg_type, nlm_flags, ifindex, kind, pid) ==
    [req |-> LegacyTransactRequest(msg_type, TcmsgBytes(ifindex, 0, 0),
                                   KindAttr(kind), nlm_flags, pid),
     expect |-> msg_type]

\* Kinds as ASCII bytes: "mq" and "fq".
TcWrapperCall ==
    /\ fn = "none"
    /\ \E w \in TcWrappers, ifindex \in {2, 3}, pid \in Pids,
          kind \in {<<109, 113>>, <<102, 113>>} :
         Call("tc_wrapper",
              [module |-> w[1], name |-> w[2], msg_type |-> w[3],
               nlm_flags |-> w[4], ifindex |-> ifindex, kind |-> kind],
              CASE w[1] = "api_qdisc" ->
                      _nll_qdisc(w[3], w[4], ifindex, kind, pid)
                [] w[1] = "api_tclass" ->
                      _nll_tclass(w[3], w[4], ifindex, kind, pid)
                [] w[1] = "api_tc" ->
                      _nll_tc_op(w[3], w[4], ifindex, kind, pid))

CodecNext ==
    \/ PackAttrCall
    \/ NlaAttrToBytesCall
    \/ DumpRequestCall
    \/ TransactRequestCall
    \/ LegacyDumpRequestCall
    \/ LegacyTransactRequestCall
    \/ IterateRtalistCall
    \/ StructRoundTripCall
    \/ NewlinkParserCall
    \/ NewTcParserCall
    \/ TcWrapperCall

CodecSpec == CodecInit /\ [][CodecNext]_vars

------------------------------------------------------------------------------
(* NLA tree: decoding (core.py) *)

(* A node is the record of what its constructor stores: its class, tag and *)
(* required flag, for a scalar its val (hasval tells val from None), its   *)
(* callback and its setter (the accumulator key it writes), for a union    *)
(* the nodes it resolves to, for a nest its children in declaration order. *)
(* The data is bytes; an accumulator maps keys to decoded values.          *)

RECURSIVE IntFromBytes(_)
\* int.from_bytes(data, byteorder="little")
IntFromBytes(data) ==
    IF data = <<>> THEN 0 ELSE Head(data) + 256 * IntFromBytes(Tail(data))

\* NlaUInt8(tag, val=, callback=, setter=, required=); nll_assert(lambda x:
\* x == val) is the callback that raises StopParsing on another value.
NlaUInt8(tag, required, hasval, val, callback, setter) ==
    [cls |-> "scalar", tag |-> tag, required |-> required,
     hasval |-> hasval, val |-> val,
     callback |-> IF hasval /\ callback = "none" THEN "nll_assert"
                  ELSE callback,
     setter |-> setter, attrs |-> <<>>, nlas |-> <<>>]

\* NlaUnion(tag, key=lambda accum: accum["kind"], attrs=, required=)
NlaUnion(tag, required, attrs) ==
    [cls |-> "union", tag |-> tag, required |-> required,
     hasval |-> FALSE, val |-> 0, callback |-> "none", setter |-> "none",
     attrs |-> attrs, nlas |-> <<>>]

\* NlaNest(tag, *nlas, required=)
NlaNest(tag, required, nlas) ==
    [cls |-> "nest", tag |-> tag, required |-> required,
     hasval |-> FALSE, val |-> 0, callback |-> "none", setter |-> "none",
     attrs |-> <<>>, nlas |-> nlas]

\* What a parse returns or raises: the accumulator, the children of the
\* list whose parse was called, in the order of the calls, and the callbacks
\* invoked with the value each got.
NlaOk(a, o, c) == [exc |-> "none", acc |-> a, order |-> o, cbs |-> c]
NlaExc(e, a, o, c) == [exc |-> e, acc |-> a, order |-> o, cbs |-> c]

\* _NlaScalar.parse(accum, data)
NlaScalar_parse(nla, accum, data) ==
    IF nla.setter = "none" THEN NlaOk(accum, <<>>, <<>>)
    ELSE LET value == IntFromBytes(data)
             cbs == IF nla.callback = "none" THEN <<>>
                    ELSE <<[tag |-> nla.tag, value |-> value]>>
         IN  IF nla.callback = "nll_assert" /\ value # nla.val
             THEN NlaExc("StopParsing", accum, <<>>, cbs)
             ELSE NlaOk((nla.setter :> value) @@ accum, <<>>, cbs)

\* NlaUnion.resolve(accum): self.attrs[self.key(accum)], or KeyError, which
\* leaves the union itself as nla.
NlaUnion_resolve(nla, accum) ==
    IF "kind" \in DOMAIN accum /\ accum["kind"] \in DOMAIN nla.attrs
    THEN [ok |-> TRUE, nla |-> nla.attrs[accum["kind"]]]
    ELSE [ok |-> FALSE, nla |-> nla]

RECURSIVE NlaNestWalk(_, _)
\* The while loop of _NlaNest.parse: attrs[rta_type] = payload for each
\* attribute, a later one of the same type replacing an earlier one.
\* "hang" is the loop that never ends because the advance is zero.
NlaNestWalk(attrs, data) ==
    IF data = <<>> THEN [exc |-> "none", attrs |-> attrs]
    ELSE LET rta == StructParse("rtattr", data)
         IN  IF ~rta.ok THEN [exc |-> "NllError", attrs |-> attrs]
             ELSE LET increment == AndNot3(rta.fields.rta_len + 4 - 1)
                      payload == Upto(rta.remainder,
                                      rta.fields.rta_len - Size("rtattr"))
                      attrs2 == [t \in DOMAIN attrs \cup {rta.fields.rta_type}
                                    |-> IF t = rta.fields.rta_type THEN payload
                                        ELSE attrs[t]]
                  IN  IF increment = 0
                      THEN [exc |-> "hang", attrs |-> attrs2]
                      ELSE NlaNestWalk(attrs2, From(data, increment))

RECURSIVE NlaNest_parse(_, _, _)
RECURSIVE NlaNestChildren(_, _, _)

\* nla.parse(accum, data) for a resolved child.
NlaParse(nla, accum, data) ==
    CASE nla.cls = "scalar" -> NlaScalar_parse(nla, accum, data)
      [] nla.cls = "nest" -> NlaNest_parse(nla.nlas, accum, data)
      [] nla.cls = "union" -> NlaExc("NotImplementedError", accum, <<>>, <<>>)

\* The for loop of _NlaNest.parse over self.nlas.
NlaNestChildren(nlas, attrs, accum) ==
    IF nlas = <<>> THEN NlaOk(accum, <<>>, <<>>)
    ELSE LET decl == Head(nlas)
             res  == IF decl.cls = "union" THEN NlaUnion_resolve(decl, accum)
                     ELSE [ok |-> TRUE, nla |-> decl]
             nla  == res.nla
         IN  IF ~res.ok \/ nla.tag \notin DOMAIN attrs
             THEN IF nla.required
                  THEN NlaExc("StopParsing", accum, <<>>, <<>>)
                  ELSE NlaNestChildren(Tail(nlas), attrs, accum)
             ELSE LET r == NlaParse(nla, accum, attrs[nla.tag])
                      me == <<[tag |-> nla.tag, cls |-> nla.cls,
                               filter |-> nla.hasval]>>
                  IN  IF r.exc # "none"
                      THEN NlaExc(r.exc, r.acc, me, r.cbs)
                      ELSE LET rest == NlaNestChildren(Tail(nlas), attrs, r.acc)
                           IN  [exc |-> rest.exc, acc |-> rest.acc,
                                order |-> me \o rest.order,
                                cbs |-> r.cbs \o rest.cbs]

\* _NlaNest.parse(accum, data) of the nest whose children are nlas.
NlaNest_parse(nlas, accum, data) ==
    LET w == NlaNestWalk(<<>>, data)
    IN  IF w.exc # "none" THEN NlaExc(w.exc, accum, <<>>, <<>>)
        ELSE NlaNestChildren(nlas, w.attrs, accum)

\* The children a list is declared with: a scalar of tag 10 that is a filter
\* on 1, has a callback of the caller's, or neither; a scalar of tag 1 that
\* sets "kind"; a union that resolves kind 1 to a nest of tag 2 holding a
\* scalar that sets "krt".
NlaNames == {"master", "kind", "data"}
MasterVariants ==
    [hasval : BOOLEAN, callback : {"none", "user"}, setter : {"none", "master"}]
NlaNode(name, req, v, mreq) ==
    CASE name = "master" ->
            NlaUInt8(10, req, v.hasval, 1, v.callback, v.setter)
      [] name = "kind" -> NlaUInt8(1, req, FALSE, 0, "none", "kind")
      [] name = "data" ->
            NlaUnion(2, req,
                     (1 :> NlaNest(2, mreq,
                                   <<NlaUInt8(1, FALSE, FALSE, 0, "none", "krt")>>)))

\* Declaration orders: every arrangement of one to three distinct children.
NlaDecls ==
    {s \in UNION {[1..n -> NlaNames] : n \in 1..Cardinality(NlaNames)} :
        \A i, j \in 1..Len(s) : s[i] = s[j] => i = j}

\* NlaNest(*nlas) for a declaration order, the positions that are required,
\* the variant of the tag-10 scalar and the required flag of the union's nest.
NlaTree(decl, req, v, mreq) ==
    [i \in 1..Len(decl) |-> NlaNode(decl[i], i \in req, v, mreq)]

\* Attributes on the wire, and the lists of up to MaxWire of them.
MaxWire == 2
WireAttrs ==
    {[tag |-> 10, val |-> <<1>>], [tag |-> 10, val |-> <<2>>],
     [tag |-> 1, val |-> <<1>>], [tag |-> 1, val |-> <<9>>],
     [tag |-> 2, val |-> PackAttrs(<<[tag |-> 1, val |-> <<7>>]>>)]}
NlaWires == UNION {[1..n -> WireAttrs] : n \in 0..MaxWire}

NlaNestParseCall ==
    /\ fn = "none"
    /\ \E decl \in NlaDecls, mreq \in BOOLEAN, wire \in NlaWires :
         \E req \in SUBSET (1..Len(decl)), v \in MasterVariants :
           LET nlas == NlaTree(decl, req, v, mreq)
           IN  Call("_NlaNest.parse",
                    [nlas |-> nlas, wire |-> wire],
                    NlaNest_parse(nlas, <<>>, PackAttrs(wire)))

NlaNext ==
    \/ NlaNestParseCall

NlaSpec == CodecInit /\ [][NlaNext]_vars

------------------------------------------------------------------------------
(* parser_route.py *)

\* F applied to the value of e: e is evaluated once, before F's body, as
\* Python evaluates the right-hand side of an assignment.
Eval(e, F(_)) == CHOOSE v \in {F(x) : x \in {e}} : TRUE

(* The route parser reads bytes: the attribute list is walked as            *)
(* parse_rtalist walks it and RTA_MULTIPATH as parse_nhlist does.  A        *)
(* selector maps rta_type numbers to (op, key).                             *)

RECURSIVE parse_rtalist_bytes(_, _, _)
RECURSIVE NhlistWalk(_)

\* data[a:b] for a >= 0
Slice(data, a, b) == From(Upto(data, b), a)

\* The while loop of parse_nhlist: the accumulators of the nexthops read,
\* and how the loop ended ("hang": rtnh_len = 0, the data never shrinks).
NhlistWalk(data) ==
    IF Len(data) < 8
    THEN [exc |-> IF data # <<>> THEN "NllError" ELSE "none", nhops |-> <<>>]
    ELSE Eval(StructParse("rtnexthop", data).fields, LAMBDA nh :
         Eval(Slice(data, 8, nh.rtnh_len), LAMBDA attrs :
         Eval(parse_rtalist_bytes(
                  ("ifindex" :> [conv |-> "rtnexthop", raw |-> nh.rtnh_ifindex]),
                  attrs, (5 :> Leaf("to_ipaddr", "gateway"))), LAMBDA r :
           IF r.exc # "none" THEN [exc |-> r.exc, nhops |-> <<>>]
           ELSE IF nh.rtnh_len = 0 THEN [exc |-> "hang", nhops |-> <<>>]
           ELSE Eval(From(data, nh.rtnh_len), LAMBDA tail :
                Eval(NhlistWalk(tail), LAMBDA rest :
                  [exc |-> rest.exc, nhops |-> <<r.acc>> \o rest.nhops])))))

\* parse_nhlist(accum, data, key)
parse_nhlist(accum, data, key) ==
    LET w == NhlistWalk(data)
    IN  IF w.exc # "none" THEN Exc(w.exc, accum)
        ELSE Ok((key :> w.nhops) @@ accum)

\* op(accum, payload, *args) for an entry of a route selector.
RouteOp(d, accum, val) ==
    CASE d.op \in LeafOps -> Ok(SetKey(accum, d.arg, d.op, val))
      [] d.op = "parse_nhlist" -> parse_nhlist(accum, val, d.arg)

\* parse_rtalist(accum, data, sel) on bytes.
parse_rtalist_bytes(accum, data, sel) ==
    IF data = <<>> THEN Ok(accum)
    ELSE Eval(StructParse("rtattr", data), LAMBDA rta :
           IF ~rta.ok THEN Exc("NllError", accum)
           ELSE Eval(Upto(rta.remainder, rta.fields.rta_len - Size("rtattr")),
                     LAMBDA payload :
                Eval(IF rta.fields.rta_type \in DOMAIN sel
                     THEN RouteOp(sel[rta.fields.rta_type], accum, payload)
                     ELSE Ok(accum), LAMBDA r :
                  LET increment == AndNot3(rta.fields.rta_len + 4 - 1)
                  IN  IF r.exc # "none" THEN r
                      ELSE IF increment = 0 THEN Exc("hang", r.acc)
                      ELSE Eval(From(data, increment), LAMBDA tail :
                             parse_rtalist_bytes(r.acc, tail, sel)))))

\* RTA_DST = 1, RTA_OIF = 4, RTA_GATEWAY = 5, RTA_PRIORITY = 6,
\* RTA_MULTIPATH = 9, RTA_TABLE = 15
_newroute_sel ==
    (1 :> Leaf("to_ipaddr", "dst"))
    @@ (6 :> Leaf("to_int", "metric"))
    @@ (15 :> Leaf("to_int", "table"))
    @@ (4 :> Leaf("to_int", "ifindex"))
    @@ (5 :> Leaf("to_ipaddr", "gateway"))
    @@ (9 :> Leaf("parse_nhlist", "multipath"))

\* The accumulator newroute_parser starts from.
RouteHeader(rtm) ==
    [k \in {"family", "dst_prefixlen", "table", "type", "protocol", "scope"}
        |-> [conv |-> "rtmsg",
             raw |-> CASE k = "family" -> rtm.rtm_family
                       [] k = "dst_prefixlen" -> rtm.rtm_dst_len
                       [] k = "table" -> rtm.rtm_table
                       [] k = "type" -> rtm.rtm_type
                       [] k = "protocol" -> rtm.rtm_protocol
                       [] k = "scope" -> rtm.rtm_scope]]

\* The filter test of newroute_parser; a filter of 0, and a table_set of
\* None (given = FALSE), is no filter.
RouteRejected(rtm, table, protocol, scope, type, table_set) ==
    \/ table_set.given /\ rtm.rtm_table \notin table_set.tables
    \/ table # 0 /\ rtm.rtm_table # table
    \/ protocol # 0 /\ rtm.rtm_protocol # protocol
    \/ scope # 0 /\ rtm.rtm_scope # scope
    \/ type # 0 /\ rtm.rtm_type # type

\* A route parser that leaves the nexthops under their key.
NewrouteUnflattened(message, table, protocol, scope, type, table_set) ==
    LET r == parse_rtalist_bytes(RouteHeader(message.rtm), message.attrs,
                                 _newroute_sel)
    IN  [exc |-> r.exc, res |-> IF r.exc = "none" THEN <<r.acc>> ELSE <<>>,
         walked |-> TRUE]

\* A route parser that parses before it tests the filters.
NewrouteLateFilter(message, table, protocol, scope, type, table_set) ==
    LET r == NewrouteUnflattened(message, table, protocol, scope, type,
                                 table_set)
    IN  IF RouteRejected(message.rtm, table, protocol, scope, type, table_set)
             /\ r.exc = "none"
        THEN [r EXCEPT !.res = <<>>]
        ELSE r

\* newroute_parser(message, table, protocol, scope, type, table_set): what
\* it raises, the list it returns, and whether parse_rtalist was called.
newroute_parser(message, table, protocol, scope, type, table_set) ==
    IF RouteRejected(message.rtm, table, protocol, scope, type, table_set)
    THEN [exc |-> "none", res |-> <<>>, walked |-> FALSE]
    ELSE LET r == parse_rtalist_bytes(RouteHeader(message.rtm),
                                      message.attrs, _newroute_sel)
             rtalist == [k \in DOMAIN r.acc \ {"multipath"} |-> r.acc[k]]
         IN  IF r.exc # "none"
             THEN [exc |-> r.exc, res |-> <<>>, walked |-> TRUE]
             ELSE IF "multipath" \notin DOMAIN r.acc
             THEN [exc |-> "none", res |-> <<rtalist>>, walked |-> TRUE]
             ELSE [exc |-> "none",
                   res |-> [i \in 1..Len(r.acc["multipath"]) |->
                              r.acc["multipath"][i] @@ rtalist],
                   walked |-> TRUE]

\* Route messages: the rtmsg header fields the parser reads, the attributes
\* after it.  A nexthop is its ifindex and whether it has a gateway.
MaxHops == 2
Rtmsgs ==
    [rtm_family : {2}, rtm_dst_len : {24}, rtm_table : {254, 255},
     rtm_type : {1, 2}, rtm_protocol : {3, 4}, rtm_scope : {0, 253}]
Nexthops == [ifindex : {3}, gw : BOOLEAN]
NexthopLists == UNION {[1..n -> Nexthops] : n \in 0..MaxHops}

\* pack_multipath(ifindex, gateway) of api_route.py
pack_multipath(nhop) ==
    LET gwattr == IF nhop.gw THEN pack_attr(5, <<10, 0, 0, nhop.ifindex>>).bytes
                  ELSE <<>>
        size == 2 + 1 + 1 + 4 + Len(gwattr)
    IN  StructBytes("rtnexthop",
                    [rtnh_len |-> size, rtnh_flags |-> 0, rtnh_hops |-> 0,
                     rtnh_ifindex |-> nhop.ifindex]).bytes \o gwattr

\* An RTM_NEWROUTE message: RTA_OIF, RTA_GATEWAY and RTA_MULTIPATH, each if
\* asked for.
RouteMessage(rtm, oif, gw, has_multipath, nhops) ==
    [rtm |-> rtm,
     attrs |->
        (IF oif THEN pack_attr(4, <<7, 0, 0, 0>>).bytes ELSE <<>>)
        \o (IF has_multipath
            THEN pack_attr(9, Concat([i \in 1..Len(nhops) |->
                                         pack_multipath(nhops[i])])).bytes
            ELSE <<>>)
        \o (IF gw THEN pack_attr(5, <<10, 0, 0, 1>>).bytes ELSE <<>>)]

\* The filters a caller gives: 0 and None stand for no filter.
RouteFilters ==
    [table : {0, 254}, protocol : {0, 3}, scope : {0, 253}, type : {0, 1},
     table_set : {[given |-> FALSE, tables |-> {}],
                  [given |-> TRUE, tables |-> {}],
                  [given |-> TRUE, tables |-> {254}]}]

NewrouteParserCall ==
    /\ fn = "none"
    /\ \E rtm \in Rtmsgs, f \in RouteFilters, oif \in BOOLEAN, gw \in BOOLEAN,
          has_multipath \in BOOLEAN, nhops \in NexthopLists :
         /\ has_multipath \/ nhops = <<>>
         /\ \E message \in {RouteMessage(rtm, oif, gw, has_multipath, nhops)} :
              Call("newroute_parser",
                   [rtm |-> rtm, filters |-> f, oif |-> oif, gw |-> gw,
                    has_multipath |-> has_multipath, nhops |-> nhops],
                   newroute_parser(message, f.table, f.protocol, f.scope,
                                   f.type, f.table_set))

RECURSIVE FramerWalk(_)
\* The inner loop of _messages on one datagram: the (type, length) of the
\* messages yielded and how the loop ended: "none" when the buffer ran
\* out, "done" at NLMSG_DONE (type 3), "StructError" when a header could
\* not be unpacked, "hang" when nlmsg_len = 0 and the buffer never shrinks.
FramerWalk(b) ==
    IF b = <<>> THEN [exc |-> "none", msgs |-> <<>>]
    ELSE LET mh == StructParse("nlmsghdr", b)
         IN  IF ~mh.ok THEN [exc |-> "StructError", msgs |-> <<>>]
             ELSE IF mh.fields.nlmsg_type = 3
             THEN [exc |-> "done", msgs |-> <<>>]
             ELSE IF mh.fields.nlmsg_len = 0
             THEN [exc |-> "hang", msgs |-> <<>>]
             ELSE LET rest == FramerWalk(From(b, mh.fields.nlmsg_len))
                  IN  [exc |-> rest.exc,
                       msgs |-> <<[type |-> mh.fields.nlmsg_type,
                                   len |-> mh.fields.nlmsg_len]>>
                                \o rest.msgs]

\* Byte strings to walk: up to MaxPieces pieces, each a whole attribute, a
\* header with rta_len 0 or 2, or a cut-off header; nexthops of rtnh_len 8,
\* 0 and 4 and stray bytes; messages of nlmsg_len 20, 16 and 0.
MaxPieces == 2
Pieces(set) == UNION {[1..n -> set] : n \in 0..MaxPieces}
RawAttrs ==
    {pack_attr(5, <<10, 0, 0, 1>>).bytes, <<0, 0, 5, 0>>, <<2, 0, 5, 0>>,
     <<8, 0>>}
RawNexthops ==
    {<<8, 0, 0, 0, 3, 0, 0, 0>>, <<0, 0, 0, 0, 3, 0, 0, 0>>,
     <<4, 0, 0, 0, 3, 0, 0, 0>>, <<1, 2>>}
RawMessages ==
    {<<20, 0, 0, 0, 16, 0, 0, 0, 1, 0, 0, 0, 0, 0, 0, 0, 9, 9, 9, 9>>,
     <<16, 0, 0, 0, 16, 0, 0, 0, 1, 0, 0, 0, 0, 0, 0, 0>>,
     <<0, 0, 0, 0, 16, 0, 0, 0, 1, 0, 0, 0, 0, 0, 0, 0>>,
     <<16, 0, 0, 0, 3, 0, 0, 0, 1, 0, 0, 0, 0, 0, 0, 0>>}

\* One walk over bytes by each of the length-driven loops.
WalkCall ==
    /\ fn = "none"
    /\ \/ \E data \in {Concat(p) : p \in Pieces(RawAttrs)} :
            \/ Call("iterate_rtalist", data, iterate_rtalist(data))
            \/ Call("parse_rtalist", data,
                    parse_rtalist_bytes(<<>>, data, _newroute_sel))
            \/ Call("_NlaNest.parse.walk", data,
                    NlaNest_parse(<<NlaUInt8(5, FALSE, FALSE, 0, "none", "gw")>>,
                                  <<>>, data))
       \/ \E data \in {Concat(p) : p \in Pieces(RawNexthops)} :
            Call("parse_nhlist", data, parse_nhlist(<<>>, data, "multipath"))
       \/ \E b \in {Concat(p) : p \in Pieces(RawMessages)} :
            Call("_messages.walk", b, FramerWalk(b))

ParseNext ==
    \/ NewrouteParserCall
    \/ WalkCall

ParseSpec == CodecInit /\ [][ParseNext]_vars

------------------------------------------------------------------------------
(* nll_listen on a socket made with block=False, called again and again *)

\* What recv does on a non-blocking socket: return a datagram or raise
\* BlockingIOError when none is ready.
NonblockRecv(n) ==
    {[st |-> "blocking", dg |-> <<>>]}
    \cup {[st |-> "ok", dg |-> d] : d \in Datagrams(n)}

\* recv calls after which the caller stops calling nll_listen.
MaxRecvs == 4

ListenInit == Init /\ op = "listen"

\* One iteration of the for loop of nll_listen over _messages; the framer
\* returns when recv raises BlockingIOError.
ListenPoll ==
    /\ op = "listen" /\ pc = "run"
    /\ \E r \in (IF buf = <<>> THEN NonblockRecv(MaxMsgs - Len(rx))
                 ELSE {NoRecv}),
          pres \in ParserResults :
        LET f == Messages(r)
            b == ListenBody(f.msg, pres)
            called == f.kind = "msg" /\ f.msg.type \in ListenTypes
        IN  /\ FramerUpdate(f)
            /\ ~called => pres = "ok"
            /\ naccum' = IF called THEN naccum + 1 ELSE naccum
            /\ parsed' = IF called
                         THEN Append(parsed, [src |-> f.msg.id, msg |-> <<f.msg.id>>,
                                              acc |-> Accum(naccum), res |-> pres])
                         ELSE parsed
            /\ IF f.kind = "end"
               THEN Finish("exhausted", NoArg) /\ UNCHANGED yielded
               ELSE IF b.act = "raise"
               THEN Finish(b.exc, b.arg) /\ UNCHANGED yielded
               ELSE /\ yielded' = Append(yielded, [src |-> f.msg.id,
                                                   acc |-> Accum(naccum)])
                    /\ UNCHANGED <<pc, outcome, errarg>>
    /\ UNCHANGED codec
    /\ UNCHANGED queue
    /\ UNCHANGED <<op, sk, sent, dump_interrupted, result, sock>>

\* The caller calls nll_listen again on the same socket after the iteration
\* ended: a new generator, with a new framer whose buffer starts empty.
ListenAgain ==
    /\ op = "listen" /\ pc = "done"
    /\ nrecv < MaxRecvs
    /\ pc' = "run"
    /\ buf' = <<>>
    /\ framerDone' = FALSE
    /\ outcome' = "none"
    /\ errarg' = NoArg
    /\ UNCHANGED codec
    /\ UNCHANGED queue
    /\ UNCHANGED <<op, sk, sent, dump_interrupted, result, sock, nrecv, rx,
                   seen, consumed, naccum, parsed, yielded>>

ListenNextAll ==
    \/ ListenPoll
    \/ ListenAgain

ListenSpec == ListenInit /\ [][ListenNextAll]_vars

------------------------------------------------------------------------------
(* Consecutive operations on one caller-supplied socket (api_link.py, core.py) *)
(*                                                                          *)
(* The caller runs one operation after another on the same socket.  The     *)
(* kernel queues the datagrams that answer a request when the request is    *)
(* sent; every message carries in `req` the number of the request it        *)
(* answers, and `seen` records which operation unpacked it.                  *)

\* Number of operations the caller runs on the shared socket.
MaxOps == 2

\* errno.ENODEV.
ENODEV == 19

\* nll_link_add, nll_link_del, nll_link_lookup, nll_get_links and a
\* nll_transact called with flags=NLM_F_ECHO.
SharedOps == {"link_add", "link_del", "link_lookup", "get_links", "transact"}

\* Message i of the answer to request k.
Answer(k, i, t, e) ==
    [type |-> t, intr |-> FALSE, error |-> e, id |-> <<k, i>>, req |-> k]

\* What the kernel queues in answer to request k of operation o: an error, or
\* the acknowledgement asked for with NLM_F_ACK, preceded by the object when
\* NLM_F_ECHO was set; the object for a lookup; the objects and NLMSG_DONE
\* for a dump.
KernelReplies(o, k) ==
    IF o = "get_links"
    THEN { << <<Answer(k, 1, "RTYP", 0)>>,
              <<Answer(k, 2, "RTYP", 0), Answer(k, 3, "DONE", 0)>> >>,
           << <<Answer(k, 1, "RTYP", 0), Answer(k, 2, "RTYP", 0)>>,
              <<Answer(k, 3, "DONE", 0)>> >> }
    ELSE { << <<Answer(k, 1, "ERROR", e)>> >> : e \in ErrorCodes \ {0} }
         \cup (IF o \in {"link_add", "transact"}
               THEN { << <<Answer(k, 1, "RTYP", 0)>>,
                         <<Answer(k, 2, "ERROR", 0)>> >> }
               ELSE IF o = "link_lookup"
               THEN { << <<Answer(k, 1, "RTYP", 0)>> >> }
               ELSE { << <<Answer(k, 1, "ERROR", 0)>> >> })

\* A value returned to the caller: None, or the index read from a message.
ReturnNone == [exc |-> "None", arg |-> NoArg, ret |-> <<>>]
ReturnIndex(msg) ==
    IF msg = <<>>
    THEN [exc |-> "StructError", arg |-> NoArg, ret |-> <<>>]
    ELSE [exc |-> "return", arg |-> NoArg, ret |-> <<Head(msg)>>]

\* nll_link_lookup with every NllError passed on to the caller.
LinkLookupNoCatch(a) == IF a.exc = "return" THEN ReturnIndex(a.ret) ELSE a

\* nll_link_lookup, a being what legacy_nll_transact returned or raised.
nll_link_lookup(a) ==
    IF a.exc = "NllError"
    THEN IF a.arg.kind = "errno" /\ a.arg.val = 0 - ENODEV
         THEN ReturnNone
         ELSE a
    ELSE IF a.exc = "return"
    THEN ReturnIndex(a.ret)
    ELSE a

\* _nll_link, a being what legacy_nll_transact returned or raised: nll_link_add
\* has parser=ifindex_parser, nll_link_del has none.
nll_link(o, a) ==
    IF a.exc # "return" THEN a
    ELSE IF o = "link_add" /\ a.ret # <<>>
    THEN ReturnIndex(a.ret)
    ELSE ReturnNone

\* nll_transact: next() of _nll_send over the messages of datagram dg.
NllTransactReply(dg) ==
    LET b == NllSendBody(Head(dg), FALSE)
    IN  IF Head(dg).type = "DONE"
        THEN [exc |-> "StopIteration", arg |-> NoArg, ret |-> <<>>]
        ELSE IF b.act = "raise"
        THEN [exc |-> b.exc, arg |-> b.arg, ret |-> <<>>]
        ELSE [exc |-> "return", arg |-> NoArg, ret |-> b.payload]

\* The header of message m unpacked by the running operation.
Unpacked(m) == Append(seen, [msg |-> m, by |-> sent])

\* The caller starts the next operation: the request is sent, the kernel
\* queues its answer behind whatever the socket still holds.
SharedSend ==
    /\ pc = "done"
    /\ sent < MaxOps
    /\ \E o \in SharedOps :
        \E r \in KernelReplies(o, sent + 1) :
            /\ op' = o
            /\ queue' = queue \o r
    /\ sent' = sent + 1
    /\ pc' = "run"
    /\ buf' = <<>>
    /\ dump_interrupted' = FALSE
    /\ yielded' = <<>>
    /\ outcome' = "none"
    /\ errarg' = NoArg
    /\ result' = <<>>
    /\ UNCHANGED codec
    /\ UNCHANGED <<sk, framerDone, nrecv, rx, seen, consumed, naccum, parsed, sock>>

\* _legacy_nll_transact and nll_transact: one recv, the first header decides.
SharedTransact ==
    /\ pc = "run"
    /\ op \in SharedOps \ {"get_links"}
    /\ queue # <<>>
    /\ LET dg == Head(queue)
           a == IF op = "transact"
                THEN NllTransactReply(dg)
                ELSE IF op = "link_lookup"
                THEN nll_link_lookup(LegacyTransactReply(dg))
                ELSE nll_link(op, LegacyTransactReply(dg))
       IN  /\ seen' = Unpacked(Head(dg))
           /\ outcome' = a.exc
           /\ errarg' = a.arg
           /\ result' = a.ret
    /\ queue' = Tail(queue)
    /\ nrecv' = nrecv + 1
    /\ pc' = "done"
    /\ UNCHANGED codec
    /\ UNCHANGED <<op, sk, buf, framerDone, dump_interrupted, sent, rx, consumed,
                   naccum, parsed, yielded, sock>>

\* legacy_nll_get_dump resumed once: the next message of the buffer, or of the
\* next datagram of the queue when the buffer is empty.
SharedDumpNext ==
    /\ pc = "run"
    /\ op = "get_links"
    /\ buf # <<>> \/ queue # <<>>
    /\ LET b == IF buf # <<>> THEN buf ELSE Head(queue)
           m == Head(b)
           body == LegacyDumpBody(m, dump_interrupted)
       IN  /\ seen' = Unpacked(m)
           /\ queue' = IF buf # <<>> THEN queue ELSE Tail(queue)
           /\ nrecv' = IF buf # <<>> THEN nrecv ELSE nrecv + 1
           /\ IF m.type = "DONE"
              THEN /\ buf' = <<>>
                   /\ pc' = "done"
                   /\ outcome' = "exhausted"
                   /\ errarg' = NoArg
                   /\ UNCHANGED yielded
              ELSE IF body.act = "raise"
              THEN /\ buf' = <<>>
                   /\ pc' = "done"
                   /\ outcome' = body.exc
                   /\ errarg' = body.arg
                   /\ UNCHANGED yielded
              ELSE /\ buf' = Tail(b)
                   /\ yielded' = Append(yielded, [src |-> m.id, acc |-> 0])
                   /\ UNCHANGED <<pc, outcome, errarg>>
    /\ UNCHANGED codec
    /\ UNCHANGED <<op, sk, framerDone, dump_interrupted, sent, rx, consumed,
                   naccum, parsed, result, sock>>

\* The caller stops iterating a dump before NLMSG_DONE: the generator and the
\* rest of its buffer are dropped, the socket stays open.
SharedAbandon ==
    /\ pc = "run"
    /\ op = "get_links"
    /\ yielded # <<>>
    /\ pc' = "done"
    /\ buf' = <<>>
    /\ outcome' = "abandoned"
    /\ UNCHANGED codec
    /\ UNCHANGED <<op, sk, framerDone, dump_interrupted, sent, nrecv, rx, seen,
                   consumed, naccum, parsed, yielded, errarg, result, sock, queue>>

SharedNext ==
    \/ SharedSend
    \/ SharedTransact
    \/ SharedDumpNext
    \/ SharedAbandon

SharedSpec == CodecInit /\ [][SharedNext]_vars

------------------------------------------------------------------------------
(* Properties *)

IsDump == op \in {"dump", "legacy_dump"}
IsTransact == op \in {"transact", "legacy_transact"}

Last(q) == q[Len(q)]

\* The stream is over: the framer returned, on NLMSG_DONE or on an empty
\* recv, having unpacked every message that arrived before that point.
StreamEnded ==
    /\ framerDone
    /\ seen = SubSeq(rx, 1, Len(seen))
    /\ \/ seen = rx
       \/ seen # <<>> /\ Last(seen).type = "DONE"

SomeFlagged(q) == \E i \in 1..Len(q) : q[i].intr

\* What the parser did with the message of this id, "none" if never called.
ParseRes(id) ==
    IF \E j \in 1..Len(parsed) : parsed[j].src = id
    THEN (CHOOSE e \in {parsed[j] : j \in 1..Len(parsed)} : e.src = id).res
    ELSE "none"

WasParsed(id) == \E j \in 1..Len(parsed) : parsed[j].src = id
WasYielded(id) == \E k \in 1..Len(yielded) : yielded[k].src = id

Accepted(m) == m.type = "RTYP" /\ ParseRes(m.id) = "ok"
OfExpectedType(y) == rx[y.src].type = "RTYP"
Ids(q) == [i \in 1..Len(q) |-> q[i].id]
Srcs(q) == [i \in 1..Len(q) |-> q[i].src]

\* C1: a dump raises DumpInterrupted only once the stream has ended, only if
\* some message of the stream carried NLM_F_DUMP_INTR, and only after every
\* message of the expected type was handed to the parser and, unless the
\* parser refused it, yielded.
C1_DumpInterruptedOnlyAfterStream ==
    outcome = "NllDumpInterrupted" =>
        /\ IsDump
        /\ StreamEnded
        /\ SomeFlagged(seen)
        /\ \A i \in 1..Len(consumed) :
              consumed[i].type = "RTYP" =>
                 /\ WasParsed(consumed[i].id)
                 /\ ParseRes(consumed[i].id) = "ok" => WasYielded(consumed[i].id)

\* C1 witness: a dump whose first message is flagged yields it and a later
\* message, and raises DumpInterrupted at the end of the stream.
C1_Witness ==
    /\ op = "dump"
    /\ outcome = "NllDumpInterrupted"
    /\ Len(yielded) = 2
    /\ consumed[1].intr
    /\ ~consumed[2].intr

\* C2: a dump that reaches the end of its stream ends with DumpInterrupted
\* whenever a message of any type that the framer read carried
\* NLM_F_DUMP_INTR, NLMSG_NOOP and NLMSG_DONE included.
C2_AnyFlaggedMessageLatches ==
    (IsDump /\ pc = "done" /\ outcome \in {"exhausted", "NllDumpInterrupted"}
        /\ SomeFlagged(seen))
    => outcome = "NllDumpInterrupted"

\* C3: nll_get_dump on a caller-supplied socket sends its request on that
\* socket and, as with an ephemeral socket, ends normally only when the
\* reply stream has ended.
C3_SuppliedSocketDumpRuns ==
    (op = "dump" /\ sk = "supplied" /\ pc = "done") =>
        /\ sent = 1
        /\ outcome = "exhausted" => StreamEnded

\* C4: in a dump every NLMSG_ERROR message, error == 0 included, ends the
\* dump with NllError and is neither handed to the parser nor yielded.
C4_DumpErrorAlwaysFails ==
    IsDump =>
        \A i \in 1..Len(consumed) :
            consumed[i].type = "ERROR" =>
                /\ i = Len(consumed)
                /\ pc = "done"
                /\ outcome = "NllError"
                /\ ~WasParsed(consumed[i].id)
                /\ ~WasYielded(consumed[i].id)

\* C5: in nll_get_dump, the accumulators yielded for messages of the expected
\* type are, in order of arrival, one for each such message whose parser did
\* not raise StopParsing; a message whose parser raised StopParsing is not
\* yielded and the dump goes on; the factory is called once per parser call
\* and no two parser calls get the same accumulator.
C5_DumpYieldsAcceptedInOrder ==
    op = "dump" =>
        /\ Srcs(SelectSeq(yielded, OfExpectedType)) = Ids(SelectSeq(consumed, Accepted))
        /\ \A i \in 1..Len(consumed) :
              consumed[i].type = "RTYP" =>
                 Cardinality({j \in 1..Len(parsed) : parsed[j].src = consumed[i].id}) = 1
        /\ \A j \in 1..Len(parsed) :
              parsed[j].res = "stop" =>
                 /\ ~WasYielded(parsed[j].src)
                 /\ outcome # "StopParsing"
                 /\ (j = Len(parsed) /\ parsed[j].src = Len(consumed) /\ pc = "done")
                       => (framerDone \/ outcome = "OSError")
        /\ naccum = Len(parsed)
        /\ \A j, k \in 1..Len(parsed) : j # k => parsed[j].acc # parsed[k].acc
        /\ \A k \in 1..Len(yielded) :
              \E j \in 1..Len(parsed) :
                 parsed[j].src = yielded[k].src /\ parsed[j].acc = yielded[k].acc

\* C5 witness: a dump yields two accumulators around a message whose parser
\* raised StopParsing.
C5_Witness ==
    /\ op = "dump"
    /\ Len(parsed) = 3
    /\ parsed[1].res = "ok" /\ parsed[2].res = "stop" /\ parsed[3].res = "ok"
    /\ \A i \in 1..3 : consumed[i].type = "RTYP"
    /\ Len(yielded) = 2

\* C6: StopParsing raised by a parser is never what an operation ends with.
C6_StopParsingNeverEscapes ==
    \A j \in 1..Len(parsed) : parsed[j].res = "stop" => outcome # "StopParsing"

\* C7: a transact, legacy or new, whose reply is NLMSG_ERROR with error == 0
\* returns empty bytes and raises nothing.
C7_TransactAckReturnsEmpty ==
    IsTransact =>
        \A i \in 1..Len(consumed) :
            (consumed[i].type = "ERROR" /\ consumed[i].error = 0) =>
                /\ i = Len(consumed)
                /\ pc = "done"
                /\ outcome = "return"
                /\ result = <<>>

\* C7 witness: the new transact returned b"" on an acknowledgement.
C7_Witness ==
    /\ op = "transact"
    /\ consumed # <<>>
    /\ Last(consumed).type = "ERROR" /\ Last(consumed).error = 0
    /\ outcome = "return"

C9_TransactOneSendOneMessage ==
    (IsTransact /\ pc = "done") =>
        /\ sent = 1
        /\ nrecv <= 1
        /\ Len(seen) <= 1
        /\ outcome \in {"return", "NllError"}

\* C10: in a dump or a transact, a message handed to the driver whose type is
\* neither a control type nor the expected one ends the operation with
\* NllError; it is not parsed, not yielded and not returned.
C10_UnexpectedTypeFails ==
    (IsDump \/ IsTransact) =>
        \A i \in 1..Len(consumed) :
            consumed[i].type = "OTHER" =>
                /\ i = Len(consumed)
                /\ pc = "done"
                /\ outcome = "NllError"
                /\ ~WasParsed(consumed[i].id)
                /\ ~WasYielded(consumed[i].id)
                /\ \A k \in 1..Len(result) : result[k] # consumed[i].id

\* C10 witness: a dump that had yielded a message failed on one of another type.
C10_Witness ==
    /\ op = "dump"
    /\ Len(yielded) = 1
    /\ Len(consumed) = 2
    /\ Last(consumed).type = "OTHER"
    /\ outcome = "NllError"

\* Operations that read the socket through the framer _messages.
UsesFramer == op \in {"dump", "legacy_dump", "transact", "listen"}

\* C11: the framer hands out the received messages one by one in order of
\* arrival: everything received is either handed out already or still in
\* the buffer.  It never hands out NLMSG_DONE; once it has returned, on
\* NLMSG_DONE or on an empty recv, nothing more is handed out, no header is
\* unpacked and no recv is made, the messages behind NLMSG_DONE in the same
\* datagram staying unread.  recv is called only when the buffer is empty,
\* so the buffer never holds more than the rest of one datagram.
C11_FramerStopsAtDone ==
    /\ [](UsesFramer =>
            /\ rx = consumed \o buf
            /\ \A i \in 1..Len(consumed) : consumed[i].type # "DONE"
            /\ \A i \in 1..Len(seen) :
                  seen[i].type = "DONE" => i = Len(seen) /\ framerDone
            /\ framerDone => buf = <<>> \/ Head(buf).type = "DONE"
            /\ Len(buf) <= MaxPerDgram)
    /\ [][UsesFramer =>
            /\ nrecv' # nrecv => buf = <<>> /\ ~framerDone
            /\ framerDone => UNCHANGED <<consumed, seen, nrecv, rx, yielded>>]_vars

\* The framer returned on an NLMSG_DONE that had a message behind it in the
\* same datagram, after handing out a message of an earlier datagram.
C11_Witness ==
    /\ UsesFramer /\ framerDone
    /\ Len(consumed) = 1 /\ nrecv = 2
    /\ Len(buf) = 2 /\ Head(buf).type = "DONE"
    /\ Len(rx) = 3

\* C12: NLMSG_NOOP is skipped silently everywhere: the framer never hands a
\* NOOP message to a driver, and no operation fails on a NOOP message,
\* yields it or returns it.
C12_NoopSkippedEverywhere ==
    /\ UsesFramer => \A i \in 1..Len(consumed) : consumed[i].type # "NOOP"
    /\ \A i \in 1..Len(consumed) :
          consumed[i].type = "NOOP" =>
             /\ ~WasYielded(consumed[i].id)
             /\ ~(\E j \in 1..Len(result) : result[j] = consumed[i].id)
             /\ ~(i = Len(consumed) /\ outcome = "NllError")

\* C13: a socket the operation created itself (sk is None) is closed when the
\* operation has ended, however it ended: normally, by NllError, by
\* NllDumpInterrupted, by an exception of the parser or of recv, or because
\* the caller dropped the dump iterator after it had started.  A socket the
\* caller supplied is never closed.
C13_SocketOwnership ==
    /\ sk = "supplied" => sock = "open"
    /\ sk = "owned" /\ pc = "done" => sock # "open"
    /\ sk = "owned" /\ sent > 0 /\ pc = "done" => sock = "closed"

\* The caller dropped a dump iterator on an ephemeral socket after receiving
\* an object.
C13_Witness ==
    /\ op = "dump" /\ sk = "owned"
    /\ outcome = "dropped" /\ Len(yielded) = 1 /\ ~framerDone
    /\ sock = "closed"

\* C14: every OS error raised by sendto or recv during a dump, a transact or
\* a listen reaches the caller wrapped in NllError: no operation ends with a
\* raw OSError.
C14_NoRawOSError ==
    outcome # "OSError"

\* C16: for every tag and payload the bytes produced by pack_attr and by
\* NlaAttr.to_bytes have a length divisible by 4, the smallest such length
\* that holds header and payload; their rta_len field is 4 + len(payload),
\* their rta_type the tag, the payload follows the header unchanged and
\* every byte after the payload is zero.
C16_AttrPadding ==
    fn \in {"pack_attr", "NlaAttr.to_bytes"} =>
        LET b == output.bytes
            n == Len(input.val)
            h == StructParse("rtattr", b)
        IN  /\ output.ok
            /\ Len(b) % 4 = 0
            /\ Len(b) >= 4 + n /\ Len(b) < 4 + n + 4
            /\ h.ok /\ h.fields.rta_len = 4 + n /\ h.fields.rta_type = input.tag
            /\ SubSeq(b, 5, 4 + n) = input.val
            /\ \A i \in (4 + n + 1)..Len(b) : b[i] = 0

\* pack_attr encoded a payload of nonzero bytes that needed three bytes of
\* padding.
C16_Witness ==
    /\ fn = "pack_attr"
    /\ Len(input.val) = 1 /\ input.val[1] = 255 /\ input.tag = 258
    /\ output.ok /\ Len(output.bytes) = 8

IsRequest ==
    fn \in {"nll_get_dump.request", "nll_transact.request",
            "legacy_nll_get_dump.request", "legacy_nll_transact.request"}

\* C15: every request header has nlmsg_len = SIZE(nlmsghdr) + len(body), the
\* caller's request type and the process id; a dump request has exactly the
\* flags NLM_F_REQUEST | NLM_F_DUMP and seq 1; a transact request has the
\* flags NLM_F_REQUEST | NLM_F_ACK | the caller's flags and seq 0.
C15_RequestHeader ==
    IsRequest =>
        /\ output.hdr.nlmsg_len = Size("nlmsghdr") + Len(output.body)
        /\ output.body = input.body
        /\ output.hdr.nlmsg_type = input.typ
        /\ output.hdr.nlmsg_pid = input.pid
        /\ fn \in {"nll_get_dump.request", "legacy_nll_get_dump.request"} =>
              /\ output.hdr.nlmsg_flags = {"NLM_F_REQUEST", "NLM_F_DUMP"}
              /\ output.hdr.nlmsg_seq = 1
        /\ fn \in {"nll_transact.request", "legacy_nll_transact.request"} =>
              /\ output.hdr.nlmsg_flags =
                    {"NLM_F_REQUEST", "NLM_F_ACK"} \cup input.flags
              /\ output.hdr.nlmsg_seq = 0

RECURSIVE SumInc(_)
SumInc(items) == IF items = <<>> THEN 0 ELSE Head(items).inc + SumInc(Tail(items))

\* C17: iterate_rtalist over the concatenated pack_attr encodings of a list
\* of (tag, payload) pairs ends normally having yielded exactly these pairs
\* in order; each step reads rta_len = 4 + len(payload) and advances by
\* (rta_len + 3) & ~3, and the advances add up to the length of the data.
C17_RtalistRoundTrip ==
    fn = "iterate_rtalist" =>
        /\ output.exc = "none"
        /\ [i \in 1..Len(output.items) |->
              [tag |-> output.items[i].tag, val |-> output.items[i].val]]
           = input.attrs
        /\ \A i \in 1..Len(output.items) :
              /\ output.items[i].rta_len = 4 + Len(input.attrs[i].val)
              /\ output.items[i].inc = AndNot3(output.items[i].rta_len + 3)
        /\ SumInc(output.items) = Len(input.data)

\* A list of three attributes whose first two payloads need padding was
\* walked.
C17_Witness ==
    /\ fn = "iterate_rtalist"
    /\ Len(input.attrs) = 3
    /\ Len(input.attrs[1].val) = 1 /\ Len(input.attrs[2].val) = 3
    /\ Len(input.attrs[3].val) = 4
    /\ Len(output.items) = 3 /\ Len(input.data) = 24

\* A bytes property that packs an array slot element by element.
StructBytesInline(S, fields) ==
    Pack(PackFmt(S),
         Concat([i \in 1..Len(Slots(S)) |->
                   IF Slots(S)[i].dim = 0 THEN <<fields[Slots(S)[i].name]>>
                   ELSE fields[Slots(S)[i].name]]))

\* C18: for every struct, the bytes of a struct built from field values,
\* when parsed again, give back these field values, a missing integer field
\* being zero; an array field such as the 16-element priomap of tc_prio_qopt
\* is packed inline, element by element.
C18_StructRoundTrip ==
    fn = "struct" =>
        /\ output.ok
        /\ output.fields = StructNew(input.S, input.kw).fields
        /\ output.bytes = StructBytesInline(input.S, output.fields).bytes
        /\ Len(output.bytes) = Size(input.S)

\* Two accumulators with the same keys and the same value at each key.
SameAccum(a, b) ==
    /\ DOMAIN a = DOMAIN b
    /\ \A k \in DOMAIN a : a[k] = b[k]

\* What the claim expects of a NEWLINK message with KIND = k and DATA = d:
\* name, the header fields and kind, and for a known kind what the selector
\* of that kind writes when it parses d.
ExpectedLink(ifi, k, d) ==
    LET base == SetKey(SetKey(LinkHeader(ifi), "name", "to_str", "dev0"),
                       "kind", "to_str", k)
    IN  IF k \in DOMAIN _linkinfo_data_descs
        THEN parse_rtalist(base, d, _linkinfo_data_descs[k]).acc
        ELSE base

\* C19: for an IFLA_LINKINFO with IFLA_INFO_KIND = k and IFLA_INFO_DATA = d
\* the link parser's accumulator has exactly the keys the sub-parser of kind
\* k writes when parsing d, whichever of KIND and DATA comes first on the
\* wire; for a kind the library does not know only kind is recorded.
C19_UnionDispatch ==
    fn = "newlink_parser" =>
        /\ output.exc = "none"
        /\ SameAccum(output.acc, ExpectedLink(input.ifi, input.kind, input.data))

\* C19, as the code has it: when IFLA_INFO_KIND precedes IFLA_INFO_DATA
\* inside IFLA_LINKINFO the accumulator has exactly the keys the sub-parser
\* of kind k writes when parsing d, and only kind for a kind the library
\* does not know; when IFLA_INFO_DATA comes first it is left unparsed
\* whatever the kind, and only kind is recorded.
C19_UnionDispatchKindFirst ==
    fn = "newlink_parser" =>
        /\ output.exc = "none"
        /\ input.kind_first =>
              SameAccum(output.acc,
                        ExpectedLink(input.ifi, input.kind, input.data))
        /\ ~input.kind_first =>
              SameAccum(output.acc, ExpectedLink(input.ifi, input.kind, <<>>))

\* A vrf link whose IFLA_INFO_DATA came after its kind was parsed: the
\* table of the vrf is in the accumulator.
C19_Witness ==
    /\ fn = "newlink_parser"
    /\ input.kind_first /\ input.kind = "vrf"
    /\ input.data = <<[tag |-> "IFLA_VRF_TABLE", val |-> 7]>>
    /\ output.exc = "none"
    /\ DOMAIN output.acc = {"ifindex", "is_up", "name", "kind", "krt"}

\* The keys the tc parsers write whatever the kind.
TcBaseKeys ==
    {"ifindex", "family", "handle", "parent", "info", "kind"}
    \cup (IF input.has_chain THEN {"chain"} ELSE {})

\* C20: in the tc parsers TCA_OPTIONS is dispatched on the accumulated kind;
\* for a qdisc, class or filter message whose TCA_KIND has no per-kind
\* sub-parser the parser raises nothing and returns an accumulator with the
\* tcmsg header fields and kind, TCA_OPTIONS being treated as absent.
C20_UnknownTcKindIsAbsent ==
    fn = "_new_tc_parser" =>
        /\ input.kind \notin DOMAIN TcSelectors[input.parser] =>
              /\ output.exc = "none"
              /\ DOMAIN output.acc = TcBaseKeys
              /\ output.acc["kind"].raw = input.kind
        /\ (input.kind \in DOMAIN TcSelectors[input.parser]
            /\ input.kind_first) =>
              /\ output.exc = "none"
              /\ TcBaseKeys \subseteq DOMAIN output.acc

\* Whether an attribute of this tag is in the list that was parsed.
OnWire(t) == \E i \in 1..Len(input.wire) : input.wire[i].tag = t

\* C21: when _NlaNest.parse has walked a list in which a child marked
\* required was never observed, StopParsing is raised; when no child, and
\* no node a union resolves to, is required and no child is a filter, every
\* child is tried and the accumulator is returned.
C21_RequiredAttributes ==
    fn = "_NlaNest.parse" =>
        LET nlas == input.nlas
            members(n) == {n.attrs[k] : k \in DOMAIN n.attrs}
        IN  /\ (\E i \in 1..Len(nlas) :
                    nlas[i].required /\ ~OnWire(nlas[i].tag))
                => output.exc = "StopParsing"
            /\ (\A i \in 1..Len(nlas) :
                    /\ ~nlas[i].required
                    /\ nlas[i].callback # "nll_assert"
                    /\ \A m \in members(nlas[i]) : ~m.required)
                => output.exc = "none"

\* The place of a child in the decode order rule: filters (scalars whose
\* val is set) first, nested children next, all others last.
DecodeRank(c) == IF c.filter THEN 1 ELSE IF c.cls = "nest" THEN 2 ELSE 3

\* C26: within one list, _NlaNest.parse calls the parse of its children so
\* that filters come first, nested children next and the other scalars
\* last, whatever the order of the declaration and of the wire.
C26_DecodeOrder ==
    fn = "_NlaNest.parse" =>
        \A i, j \in 1..Len(output.order) :
            i < j => DecodeRank(output.order[i]) <= DecodeRank(output.order[j])

\* The value decoded from the attribute of this tag that _NlaNest.parse
\* keeps: the last one of the list.
WireValue(t) ==
    LET w == input.wire
        last == CHOOSE i \in 1..Len(w) :
                    w[i].tag = t /\ \A j \in (i + 1)..Len(w) : w[j].tag # t
    IN  IntFromBytes(w[last].val)

\* C27: a scalar constructed with a val and no callback is an equality
\* filter: whenever its parse is called on a value other than val,
\* StopParsing is raised, with or without a setter; a callback that is set
\* is invoked on every value decoded.
C27_ScalarFilter ==
    fn = "_NlaNest.parse" =>
        \A i \in 1..Len(input.nlas) :
            LET n == input.nlas[i]
            IN  (/\ n.cls = "scalar"
                 /\ \E k \in 1..Len(output.order) : output.order[k].tag = n.tag)
                => /\ (n.callback = "nll_assert" /\ WireValue(n.tag) # n.val)
                        => output.exc = "StopParsing"
                   /\ n.callback # "none"
                        => \E k \in 1..Len(output.cbs) :
                              /\ output.cbs[k].tag = n.tag
                              /\ output.cbs[k].value = WireValue(n.tag)

\* Whether a filter the caller gave differs from the rtmsg header.
FilterMismatch(rtm, f) ==
    \/ f.table_set.given /\ rtm.rtm_table \notin f.table_set.tables
    \/ f.table # 0 /\ f.table # rtm.rtm_table
    \/ f.protocol # 0 /\ f.protocol # rtm.rtm_protocol
    \/ f.scope # 0 /\ f.scope # rtm.rtm_scope
    \/ f.type # 0 /\ f.type # rtm.rtm_type

\* C22: newroute_parser given a filter (table, protocol, scope, type or
\* table_set) that the rtmsg header does not match returns no result and
\* calls no attribute parser.
C22_RouteFilterShortCircuit ==
    (fn = "newroute_parser" /\ FilterMismatch(input.rtm, input.filters))
        => /\ output.exc = "none"
           /\ output.res = <<>>
           /\ ~output.walked

\* table=254 on a message of table 255 that carries attributes.
C22_Witness ==
    /\ fn = "newroute_parser"
    /\ input.filters.table = 254 /\ input.rtm.rtm_table = 255
    /\ ~input.filters.table_set.given
    /\ input.oif /\ input.has_multipath /\ Len(input.nhops) = 2
    /\ output.res = <<>> /\ ~output.walked

\* The keys and values a result takes from the route: the header fields,
\* RTA_OIF and RTA_GATEWAY.
RouteLevel(in) ==
    (IF in.gw
     THEN ("gateway" :> [conv |-> "to_ipaddr", raw |-> <<10, 0, 0, 1>>])
     ELSE <<>>)
    @@ (IF in.oif
        THEN ("ifindex" :> [conv |-> "to_int", raw |-> <<7, 0, 0, 0>>])
        ELSE <<>>)
    @@ RouteHeader(in.rtm)

\* The keys and values a result takes from a nexthop.
NexthopLevel(nhop) ==
    (IF nhop.gw
     THEN ("gateway" :> [conv |-> "to_ipaddr",
                         raw |-> <<10, 0, 0, nhop.ifindex>>])
     ELSE <<>>)
    @@ ("ifindex" :> [conv |-> "rtnexthop", raw |-> nhop.ifindex])

\* C23: for a route message that passes the filters newroute_parser returns
\* one accumulator per nexthop when RTA_MULTIPATH is present, each the
\* route's fields merged with the nexthop's, exactly one accumulator of the
\* route's fields when it is absent, and none has a "multipath" key.
C23_MultipathFlattening ==
    (fn = "newroute_parser" /\ ~FilterMismatch(input.rtm, input.filters))
        => /\ output.exc = "none"
           /\ input.has_multipath
                => /\ Len(output.res) = Len(input.nhops)
                   /\ \A i \in 1..Len(input.nhops) :
                        output.res[i]
                            = NexthopLevel(input.nhops[i]) @@ RouteLevel(input)
           /\ ~input.has_multipath => output.res = <<RouteLevel(input)>>
           /\ \A i \in 1..Len(output.res) :
                "multipath" \notin DOMAIN output.res[i]

\* A route with a gateway of its own and two nexthops, one with a gateway.
C23_Witness ==
    /\ fn = "newroute_parser"
    /\ ~FilterMismatch(input.rtm, input.filters)
    /\ input.filters.table = 254
    /\ input.has_multipath /\ Len(input.nhops) = 2 /\ input.gw /\ input.oif
    /\ input.nhops[1].gw /\ ~input.nhops[2].gw
    /\ Len(output.res) = 2
    /\ output.res[2]["gateway"].raw = <<10, 0, 0, 1>>
    /\ output.res[1]["gateway"].raw = <<10, 0, 0, 3>>

\* The calls that walk a buffer by the lengths read from it.
WalkNames ==
    {"iterate_rtalist", "parse_rtalist", "_NlaNest.parse.walk",
     "parse_nhlist", "_messages.walk"}

\* C28: every length-driven walk (iterate_rtalist, parse_rtalist,
\* _NlaNest.parse, parse_nhlist, the framer's inner loop) ends on every
\* finite input, also on a length field of 0: it shrinks the rest of the
\* buffer at every step or fails with an error.
C28_WalksTerminate ==
    fn \in WalkNames => output.exc # "hang"

\* C30: each state-changing traffic-control wrapper sends a request whose
\* nlmsg_type is the operation it is named for (RTM_NEW... for add, change
\* and replace, RTM_DEL... for del), with the wrapper's nlm_flags, and none
\* sends a GET request.
C30_TcWrapperRequestType ==
    fn = "tc_wrapper" =>
        /\ output.req.hdr.nlmsg_type = input.msg_type
        /\ output.req.hdr.nlmsg_flags
              = {"NLM_F_REQUEST", "NLM_F_ACK"} \cup input.nlm_flags
        /\ output.req.hdr.nlmsg_type
              \notin {"RTM_GETQDISC", "RTM_GETTCLASS", "RTM_GETTFILTER"}

\* The messages of a sequence whose type is in the parser table.
Registered(q) == SelectSeq(q, LAMBDA m : m.type \in ListenTypes)

\* C24: on a non-blocking socket listen returns when no message is ready
\* and a later listen call resumes with the next message: whenever a call
\* has returned for want of a message, every message received so far whose
\* type is in the parser table (and whose parser returned) has been
\* delivered exactly once, in the order of arrival.
C24_ListenDeliversAll ==
    (/\ op = "listen" /\ pc = "done" /\ outcome = "exhausted" /\ buf = <<>>
     /\ \A j \in 1..Len(parsed) : parsed[j].res = "ok")
        => Srcs(yielded) = Ids(Registered(rx))

\* C25: when nll_link_lookup has ended, the message its transact unpacked
\* decides the result: an NLMSG_ERROR carrying -ENODEV gives None, an
\* NLMSG_ERROR carrying another nonzero errno raises the NllError with that
\* errno as first argument, a message of the expected type gives the
\* ifi_index of that message.
C25_LinkLookup ==
    (op = "link_lookup" /\ pc = "done") =>
        LET m == seen[Len(seen)].msg
        IN  /\ (m.type = "ERROR" /\ m.error = 0 - ENODEV) =>
                   (outcome = "None" /\ result = <<>>)
            /\ (m.type = "ERROR" /\ m.error \notin {0, 0 - ENODEV}) =>
                   (outcome = "NllError" /\ errarg = ErrnoArg(m.error))
            /\ (m.type = "RTYP") =>
                   (outcome = "return" /\ result = <<m.id>>)

\* A lookup of a name no link has: the kernel answered -ENODEV, None came back.
C25_Witness ==
    /\ op = "link_lookup" /\ pc = "done"
    /\ seen[Len(seen)].msg.type = "ERROR"
    /\ seen[Len(seen)].msg.error = 0 - ENODEV
    /\ outcome = "None"

\* C29: every message an operation on the shared socket unpacked answers
\* that operation's own request.
C29_ReplyCorrelation ==
    \A i \in DOMAIN seen : seen[i].msg.req = seen[i].by

====
